---- MODULE Spec2Model ----
(***************************************************************************)
(* Model of the resolution core of kayahr/cdi: the Context registry, the   *)
(* Injectable producer with its singleton cache slot, the QualifiedType    *)
(* interning table, and the promises that asynchronous recipes and the     *)
(* Promise.all join of Injectable.#createNewInstance create.               *)
(*                                                                         *)
(* JavaScript runs one job at a time: every action below is one            *)
(* synchronous call from user code (a registration, a query, ...) or one   *)
(* promise job (an asynchronous recipe completing, a join continuation).   *)
(***************************************************************************)
EXTENDS Integers, Sequences, FiniteSets, TLC

VARIABLES
    parent,         \* Context.#parent of every context created so far (0 = null), context 1 is Context.#root
    active,         \* Context.#active
    injectables,    \* Context.#injectables of every context: a map from qualifier to injectable id
    injs,           \* the heap of Injectable objects, in creation order
    promises,       \* the heap of promises created by asynchronous recipes and joins
    qualifiedTypes, \* the interning table of QualifiedType.for, in creation order
    last            \* the last call made by user code and what it returned or threw

vars == <<parent, active, injectables, injs, promises, qualifiedTypes, last>>

(***************************************************************************)
(* Bounds of the model.                                                    *)
(***************************************************************************)
MaxCtx == 2
MaxReg == 2
MaxDecl == 3
MaxCalls == 2
MaxPromises == 3
MaxTree == 4
MaxOverwrite == 1

(***************************************************************************)
(* Scope.ts                                                                *)
(***************************************************************************)
SINGLETON == 0
PROTOTYPE == 1

(***************************************************************************)
(* Qualifiers.  A qualifier is a class, a name, or a QualifiedType         *)
(* instance; id is the identity of the QualifiedType instance.             *)
(***************************************************************************)
TypeQ(t) == [k |-> "type", t |-> t, n |-> "", id |-> 0]
NameQ(n) == [k |-> "name", t |-> "", n |-> n, id |-> 0]
QualifiedType(t, n, id) == [k |-> "qt", t |-> t, n |-> n, id |-> id]
\* qualify(t, n) as it appears in user code, before it is evaluated
PairQ(t, n) == [k |-> "pair", t |-> t, n |-> n, id |-> 0]
\* the null entry of an inject array: a pass-through placeholder
NullQ == [k |-> "null", t |-> "", n |-> "", id |-> 0]

(***************************************************************************)
(* Values.                                                                 *)
(***************************************************************************)
NullV == [k |-> "null", by |-> 0, n |-> 0, args |-> <<>>, act |-> 0]
ObjV(i, n, args, a) == [k |-> "obj", by |-> i, n |-> n, args |-> args, act |-> a]
CtxV(c) == [k |-> "ctx", by |-> 0, n |-> c, args |-> <<>>, act |-> 0]
PromiseV(p) == [k |-> "promise", by |-> 0, n |-> p, args |-> <<>>, act |-> 0]
PrimV(x) == [k |-> "prim", by |-> 0, n |-> x, args |-> <<>>, act |-> 0]
IsPromise(v) == v.k = "promise"
\* the function f that user code passes to setFunction
FuncV(f) == [k |-> "func", by |-> 0, n |-> f, args |-> <<>>, act |-> 0]
\* the callable that invocation n of the recipe of the function producer i returned: the closure
\* (...callParams) => func(...createParams(injectParams, callParams)) over func f and injectParams
FnV(i, n, injectParams, f) == [k |-> "fn", by |-> i, n |-> n, args |-> injectParams, act |-> 0, f |-> f]
\* one call func(...params) of the function f
CallV(f, params) == [k |-> "call", by |-> 0, n |-> f, args |-> params, act |-> 0]

\* What a call returns or throws.
Ok(v) == [err |-> "", v |-> v, q |-> NullQ, idx |-> 0]
Err(e, q, idx) == [err |-> e, v |-> NullV, q |-> q, idx |-> idx]

(***************************************************************************)
(* types.ts: getSuperClass over the classes of the program under analysis. *)
(***************************************************************************)
getSuperClass(t) ==
    CASE t = "Object" -> ""
      [] t \in {"Impl1", "Impl2"} -> "Base"
      [] OTHER -> "Object"

(***************************************************************************)
(* The declarations of the programs under analysis: what they register     *)
(* with setClass and setFactory.  recipe is the kind of the constructor or *)
(* factory:                                                                *)
(*   "new"        a class constructor, or a factory creating a new object  *)
(*   "value"      a factory returning the same value on every call         *)
(*   "null"       a factory returning null or undefined                    *)
(*   "throw"      a constructor or factory that throws                     *)
(*   "async"      an async factory whose promise fulfils with a new object *)
(*   "asyncNull"  an async factory whose promise fulfils with null         *)
(*   "reject"     an async factory whose promise rejects                   *)
(*   "function"   the recipe of setFunction, returning a callable          *)
(***************************************************************************)
Decl(type, names, params, scope, recipe, value) ==
    [type |-> type, names |-> names, params |-> params, scope |-> scope, recipe |-> recipe, value |-> value]

\* The inject arrays of the functions registered with setFunction; function 1 is callSpy.
Inject(f) ==
    CASE f = 1 -> <<NameQ("a"), NullQ, NameQ("b"), NullQ>>

\* inject.filter(qualifier => qualifier != null)
NonNull(inject) == SelectSeq(inject, LAMBDA q : q # NullQ)

Def(d) ==
    CASE d = "AsyncDep" -> Decl("AsyncDep", <<>>, <<>>, SINGLETON, "async", NullV)
      [] d = "AsyncNull" -> Decl("AsyncNull", <<>>, <<>>, SINGLETON, "asyncNull", NullV)
      [] d = "Test" -> Decl("Test", <<>>, <<TypeQ("AsyncDep")>>, SINGLETON, "new", NullV)
      [] d = "Top" -> Decl("Top", <<>>, <<TypeQ("Test")>>, PROTOTYPE, "new", NullV)
      [] d = "Proto" -> Decl("Proto", <<>>, <<>>, PROTOTYPE, "new", NullV)
      [] d = "ProtoAsync" -> Decl("ProtoAsync", <<>>, <<>>, PROTOTYPE, "async", NullV)
      [] d = "ProtoConst" -> Decl("ProtoConst", <<>>, <<>>, PROTOTYPE, "value", PrimV(23))
      [] d = "Impl1" -> Decl("Impl1", <<"n1">>, <<>>, SINGLETON, "new", NullV)
      [] d = "Impl2" -> Decl("Impl2", <<"n1">>, <<>>, SINGLETON, "new", NullV)
      [] d = "Owner" -> Decl("Owner", <<>>, <<TypeQ("Context")>>, SINGLETON, "new", NullV)
      [] d = "NullImpl" -> Decl("Impl2", <<"n1">>, <<>>, SINGLETON, "null", NullV)
      [] d = "Service" -> Decl("Service", <<>>, <<>>, SINGLETON, "new", NullV)
      [] d = "ServiceAsync" -> Decl("Service", <<>>, <<>>, SINGLETON, "async", NullV)
      [] d = "ServiceFailing" -> Decl("Service", <<>>, <<>>, SINGLETON, "throw", NullV)
      [] d = "ServiceReject" -> Decl("Service", <<>>, <<>>, SINGLETON, "reject", NullV)
      [] d = "User" -> Decl("User", <<>>, <<TypeQ("Service")>>, SINGLETON, "new", NullV)
      [] d = "NeedsArg" -> Decl("AsyncDep", <<>>, <<NullQ>>, PROTOTYPE, "new", NullV)
      [] d = "DepA" -> Decl("DepA", <<>>, <<>>, SINGLETON, "async", NullV)
      [] d = "DepB" -> Decl("DepB", <<>>, <<>>, SINGLETON, "async", NullV)
      [] d = "DepBSync" -> Decl("DepB", <<>>, <<>>, SINGLETON, "new", NullV)
      [] d = "Both" -> Decl("Both", <<>>, <<TypeQ("DepA"), TypeQ("DepB")>>, SINGLETON, "new", NullV)
      [] d = "Component" -> Decl("Component", <<>>, <<NullQ, TypeQ("Service"), NullQ>>, PROTOTYPE, "new", NullV)
      [] d = "ContextFactory" -> Decl("Context", <<>>, <<>>, SINGLETON, "new", NullV)
      [] d = "Pair" -> Decl("Pair", <<>>, <<TypeQ("Service"), TypeQ("DepB")>>, SINGLETON, "new", NullV)
      [] d = "SingleFirst" -> Decl("Single", <<>>, <<NullQ, TypeQ("Service")>>, SINGLETON, "new", NullV)
      [] d = "SingleAfter" -> Decl("Single", <<>>, <<TypeQ("Service"), NullQ>>, SINGLETON, "new", NullV)
      [] d = "SingleProto" -> Decl("Single", <<>>, <<TypeQ("Service"), NullQ>>, PROTOTYPE, "new", NullV)
      [] d = "ValueA" -> Decl("Number", <<"a">>, <<>>, SINGLETON, "value", PrimV(2))
      [] d = "ValueB" -> Decl("Number", <<"b">>, <<>>, SINGLETON, "value", PrimV(3))
      [] d = "AsyncB" -> Decl("Number", <<"b">>, <<>>, SINGLETON, "async", NullV)
      [] d = "callSpy" -> Decl("callSpy", <<"f1">>, NonNull(Inject(1)), SINGLETON, "function", FuncV(1))

(***************************************************************************)
(* Bind(e, F) is F(e) with e evaluated once: a local constant of the code. *)
(***************************************************************************)
Bind(e, F(_)) == CHOOSE y \in {F(x) : x \in {e}} : TRUE

(***************************************************************************)
(* QualifiedType.for: the QualifiedType instance of (type, name), created  *)
(* and interned on first use.  The table is kept in creation order, and    *)
(* the position of an entry is the identity of its instance.               *)
(***************************************************************************)
\* A faulty QualifiedType.for: every call creates a new instance.
QualifiedTypeFor_AlwaysNew(qts, t, n) ==
    [qts |-> Append(qts, <<t, n>>), q |-> QualifiedType(t, n, Len(qts) + 1)]

QualifiedTypeFor(qts, t, n) ==
    LET found == {j \in 1..Len(qts) : qts[j] = <<t, n>>}
    IN  IF found # {}
        THEN [qts |-> qts, q |-> QualifiedType(t, n, CHOOSE j \in found : TRUE)]
        ELSE [qts |-> Append(qts, <<t, n>>), q |-> QualifiedType(t, n, Len(qts) + 1)]

qualify(qts, t, n) == QualifiedTypeFor(qts, t, n)

\* Evaluation of a qualifier expression of user code: qualify(t, n) is called, a class or a name is itself.
EvalQualifier(qts, qi) ==
    IF qi.k = "pair" THEN qualify(qts, qi.t, qi.n) ELSE [qts |-> qts, q |-> qi]

RECURSIVE EvalQualifiers(_, _, _, _)
\* Evaluation of an inject array, left to right.
EvalQualifiers(qts, qis, k, acc) ==
    IF k > Len(qis) THEN [qts |-> qts, qs |-> acc]
    ELSE Bind(EvalQualifier(qts, qis[k]), LAMBDA r :
             EvalQualifiers(r.qts, qis, k + 1, Append(acc, r.q)))

(***************************************************************************)
(* Injectable constructor.  value is what the recipe of setValue returns.  *)
(***************************************************************************)
NewInjectable(type, recipe, params, names, scope, value) ==
    [type |-> type, recipe |-> recipe, params |-> params, names |-> names, scope |-> scope,
     value |-> value, instance |-> NullV, calls |-> 0]

(***************************************************************************)
(* Context.#setInjectable: the injectable under its type, every super      *)
(* class of it, every name, and every (type or super class, name) pair.    *)
(***************************************************************************)
\* A faulty Map.set: an existing entry is kept.
MapSet_KeepOld(map, q, i) == IF q \in DOMAIN map THEN map ELSE (q :> i) @@ map

\* Map.set
MapSet(map, q, i) == (q :> i) @@ map

RECURSIVE SetNames(_, _, _, _, _, _)
\* for (const name of injectable.getNames()) { ... }, from name k on
SetNames(map, qts, i, type, names, k) ==
    IF k > Len(names) THEN [map |-> map, qts |-> qts]
    ELSE Bind(qualify(qts, type, names[k]), LAMBDA r :
             SetNames(MapSet(MapSet(map, NameQ(names[k]), i), r.q, i), r.qts, i, type, names, k + 1))

\* A faulty walk up the class hierarchy: it stops at the type itself.
NextType_None(type) == ""

\* (type = getSuperClass(type)) != null
NextType(type) == getSuperClass(type)

RECURSIVE SetInjectable(_, _, _, _, _)
SetInjectable(map, qts, i, type, names) ==
    Bind(SetNames(MapSet(map, TypeQ(type), i), qts, i, type, names, 1), LAMBDA r :
        IF NextType(type) # "" THEN SetInjectable(r.map, r.qts, i, NextType(type), names) ELSE r)

(***************************************************************************)
(* Resolution.  A query runs synchronously through Context.#get,           *)
(* Injectable.get and Injectable.#createNewInstance, which call each other *)
(* recursively and change the heap on the way.  The operators take the     *)
(* part of the state a query can change as the record st and return it     *)
(* together with what the call returned or threw:                          *)
(*   st.injs, st.promises, st.active  the heap and Context.#active         *)
(*   st.saw      whether an Injectable.get of this query returned a promise*)
(*   st.invoked  the injectables whose recipe this query invoked, in order *)
(***************************************************************************)
Result(st, out) == [st |-> st, out |-> out]

\* A faulty error check: an exception goes unnoticed, its null value is used.
Threw_Never(r) == FALSE

\* whether the call threw
Threw(r) == r.out.err # ""

NewPromise(phase, i, vals, val, will) ==
    [state |-> "pending", phase |-> phase, inj |-> i, vals |-> vals, val |-> val, will |-> will, slots |-> {}]

\* The value this.#factory(...values) returns or the error it throws, by the kind of the recipe:
\* a new object, the value of setValue, null, an exception, or the promise p of an async function.
RecipeResult(recipe, obj, value, p) ==
    CASE recipe = "new" -> Ok(obj)
      [] recipe = "value" -> Ok(value)
      [] recipe = "null" -> Ok(NullV)
      [] recipe = "throw" -> Err("RecipeError", NullQ, 0)
      [] recipe = "function" -> Ok(FnV(obj.by, obj.n, obj.args, value.n))
      [] recipe \in {"async", "asyncNull", "reject"} -> Ok(PromiseV(p))

\* The promise an asynchronous recipe returns: what it will settle with.
RecipePromise(recipe, i, values, obj) ==
    CASE recipe = "async" -> <<NewPromise("run", i, values, obj, "fulfil")>>
      [] recipe = "asyncNull" -> <<NewPromise("run", i, values, NullV, "fulfil")>>
      [] recipe = "reject" -> <<NewPromise("run", i, values, NullV, "reject")>>
      [] OTHER -> <<>>

\* this.#factory(...values): one invocation of the recipe of injectable i.
InvokeRecipe(st, i, values) ==
    Bind(st.injs[i], LAMBDA inj :
        Result([st EXCEPT !.injs[i].calls = inj.calls + 1,
                          !.invoked = Append(@, i),
                          !.promises = @ \o RecipePromise(inj.recipe, i, values,
                                                          ObjV(i, inj.calls + 1, values, st.active))],
               RecipeResult(inj.recipe, ObjV(i, inj.calls + 1, values, st.active), inj.value,
                            Len(st.promises) + 1)))

\* A faulty test for asynchronous parameters: every construction is taken as asynchronous.
SomePromise_Always(values) == TRUE

\* A faulty test for asynchronous parameters: promises go unnoticed.
SomePromise_Never(values) == FALSE

\* values.some(value => value instanceof Promise)
SomePromise(values) == \E k \in 1..Len(values) : IsPromise(values[k])

RECURSIVE CtxGet(_, _, _, _)
RECURSIVE InjectableGet(_, _, _, _, _)
RECURSIVE ResolveParams(_, _, _, _, _, _, _, _)

\* A faulty pass-through: every placeholder gets the first argument of the caller.
PassThrough_First(args, pidx) == args[1]

\* params?.[paramIndex++]: the value, with paramIndex counting from 0
PassThrough(args, pidx) == args[pidx + 1]

\* A faulty error message: it names the index counting from 0.
MissingIndex_ZeroBased(pidx) == pidx

\* ${paramIndex + 1} of the message of the InjectionError
MissingIndex(pidx) == pidx + 1

\* A faulty lookup of a parameter: it starts from the root context.
ParamContext_Root(st, c) == 1

\* context of context.get(param): the context that was handed to injectable.get
ParamContext(st, c) == c

\* this.#params.map(...) of Injectable.#createNewInstance, from parameter k on; pidx is paramIndex.
ResolveParams(st, i, c, q, args, k, pidx, acc) ==
    IF k > Len(st.injs[i].params) THEN [st |-> st, out |-> Ok(NullV), vals |-> acc]
    ELSE IF st.injs[i].params[k] = NullQ
         THEN IF pidx >= Len(args)
              THEN [st |-> st, out |-> Err("PassThroughMissing", q, MissingIndex(pidx)), vals |-> acc]
              ELSE ResolveParams(st, i, c, q, args, k + 1, pidx + 1, Append(acc, PassThrough(args, pidx)))
         ELSE Bind(CtxGet(st, ParamContext(st, c), st.injs[i].params[k], <<>>), LAMBDA r :
                  IF Threw(r) THEN [st |-> r.st, out |-> r.out, vals |-> acc]
                  ELSE ResolveParams(r.st, i, c, q, args, k + 1, pidx, Append(acc, r.out.v)))

\* the async function of Injectable.#createNewInstance: its promise, pending on Promise.all(values)
JoinPromise(st, i, values) ==
    Result([st EXCEPT !.promises = Append(@, NewPromise("join", i, values, NullV, "fulfil"))],
           Ok(PromiseV(Len(st.promises) + 1)))

\* A faulty failure: what the lookups of the earlier parameters did to the heap is undone.
Failed_RolledBack(st, r) == Result(st, r.out)

\* an exception leaves this.#params.map(...): the heap stays as the lookups so far left it
Failed(st, r) == Result(r.st, r.out)

\* Injectable.#createNewInstance
CreateNewInstance(st, i, c, q, args) ==
    Bind(ResolveParams(st, i, c, q, args, 1, 0, <<>>), LAMBDA r :
        IF Threw(r) THEN Failed(st, r)
        ELSE IF SomePromise(r.vals)
             THEN JoinPromise(r.st, i, r.vals)
             ELSE InvokeRecipe(r.st, i, r.vals))

\* A faulty emptiness test: every slot counts as empty, nothing is cached.
SlotIsEmpty_Always(instance) == TRUE

\* A faulty emptiness test: a slot that holds a promise counts as empty.
SlotIsEmpty_OrPromise(instance) == instance = NullV \/ IsPromise(instance)

\* this.#instance == null
SlotIsEmpty(instance) == instance = NullV

\* this.#instance.then(instance => (this.#instance = instance))
AttachSlot(st, i, v) ==
    IF IsPromise(v) THEN [st EXCEPT !.promises[v.n].slots = @ \cup {i}] ELSE st

\* A faulty assignment: the instance is returned but never stored.
StoreInstance_Never(st, i, v) == st

\* this.#instance = this.#createNewInstance(context, qualifier), and the reaction if it is a promise
StoreInstance(st, i, v) == AttachSlot([st EXCEPT !.injs[i].instance = v], i, v)

\* Injectable.#getSingletonInstance
GetSingletonInstance(st, i, c, q) ==
    IF SlotIsEmpty(st.injs[i].instance)
    THEN Bind(CreateNewInstance(st, i, c, q, <<>>), LAMBDA r :
             IF Threw(r) THEN r ELSE Result(StoreInstance(r.st, i, r.out.v), Ok(r.out.v)))
    ELSE Result(st, Ok(st.injs[i].instance))

\* A faulty Injectable.get: the scope is ignored, every query constructs with the arguments.
ScopedGet_NeverCached(st, i, c, q, args) == CreateNewInstance(st, i, c, q, args)

\* A faulty Injectable.get: the scope is ignored, every producer is cached.
ScopedGet_AlwaysCached(st, i, c, q, args) == GetSingletonInstance(st, i, c, q)

\* Injectable.get
ScopedGet(st, i, c, q, args) ==
    IF st.injs[i].scope = PROTOTYPE
    THEN CreateNewInstance(st, i, c, q, args)
    ELSE GetSingletonInstance(st, i, c, q)

\* Injectable.get, recording whether it returned a promise
InjectableGet(st, i, c, q, args) ==
    Bind(ScopedGet(st, i, c, q, args), LAMBDA r :
        IF ~Threw(r) /\ IsPromise(r.out.v) THEN Result([r.st EXCEPT !.saw = TRUE], r.out) ELSE r)

\* this.#injectables.get(qualifier); 0 when the map has no entry
MapGet(map, q) == IF q \in DOMAIN map THEN map[q] ELSE 0

\* A faulty lookup: the context does not activate itself.
Enter_None(st, c) == st

\* const previous = this.activate()
Enter(st, c) == [st EXCEPT !.active = c]

\* A faulty lookup: the previously active context is not activated again.
Restore_Never(st, previous) == st

\* previous.activate() in the finally block of Context.#get
Restore(st, previous) == [st EXCEPT !.active = previous]

\* injectable == null ? null : injectable.get(...)
LocalValue(st, c, q, args) ==
    IF MapGet(injectables[c], q) = 0
    THEN Result(st, Ok(NullV))
    ELSE InjectableGet(st, MapGet(injectables[c], q), c, q, args)

\* A faulty test: the parent is never asked.
AskParent_Never(r, c) == FALSE

\* value == null && this.#parent != null
AskParent(r, c) == ~Threw(r) /\ r.out.v = NullV /\ parent[c] # 0

\* A faulty end of the lookup: null is returned as the value.
NotFoundIfNull_ReturnsNull(r, q) == r

\* if (value == null) throw new InjectionError(`Dependency ${...} not found`)
NotFoundIfNull(r, q) == IF ~Threw(r) /\ r.out.v = NullV THEN Result(r.st, Err("NotFound", q, 0)) ELSE r

\* Context.#get
CtxGet(st, c, q, args) ==
    Bind(LocalValue(Enter(st, c), c, q, args), LAMBDA r1 :
        Bind(IF AskParent(r1, c) THEN CtxGet(r1.st, parent[c], q, args) ELSE r1, LAMBDA r2 :
            Bind(NotFoundIfNull(r2, q), LAMBDA r3 :
                Result(Restore(r3.st, st.active), r3.out))))

(***************************************************************************)
(* The initial state: Context.#root has been constructed, has registered   *)
(* itself as a value under the Context type, and is the active context.    *)
(***************************************************************************)
\* A faulty constructor: every context registers the root context instead of itself.
ContextInjectable_Root(c) == NewInjectable("Context", "value", <<>>, <<>>, SINGLETON, CtxV(1))

\* this.setValue(this) of the constructor of context c
ContextInjectable(c) == NewInjectable("Context", "value", <<>>, <<>>, SINGLETON, CtxV(c))

\* The record of a call: the operation, its context and arguments, what it returned or threw (out),
\* and for a query what this.get(qualifier) returned or threw (raw), whether an Injectable.get
\* returned a promise (saw) and the injectables whose recipe it invoked, in order (invoked).
Call(op, c, q, args, out, raw, st) ==
    [op |-> op, c |-> c, q |-> q, args |-> args, out |-> out, raw |-> raw,
     saw |-> st.saw, invoked |-> st.invoked]

NoQuery == [saw |-> FALSE, invoked |-> <<>>]

Init ==
    /\ parent = <<0>>
    /\ active = 1
    /\ injs = <<ContextInjectable(1)>>
    /\ injectables = <<SetInjectable(<<>>, <<>>, 1, "Context", <<>>).map>>
    /\ qualifiedTypes = <<>>
    /\ promises = <<>>
    /\ last = Call("init", 0, NullQ, <<>>, Ok(NullV), Ok(NullV), NoQuery)

Contexts == 1..Len(parent)

\* The heap as a query sees it when it starts.
Start == [injs |-> injs, promises |-> promises, active |-> active, saw |-> FALSE, invoked |-> <<>>]

\* The bounds of the model on what a step may allocate.
WithinBounds(st) ==
    /\ Len(st.promises) <= MaxPromises
    /\ \A i \in 1..Len(st.injs) : st.injs[i].calls <= MaxCalls

(***************************************************************************)
(* Context.createChildContext: new Context(this), whose constructor        *)
(* registers the new context as a value in its own map.                    *)
(***************************************************************************)
\* A faulty createChildContext: the new context is activated.
CreateChildContext_Activating(c) ==
    /\ Len(parent) < MaxCtx
    /\ \E r \in {SetInjectable(<<>>, qualifiedTypes, Len(injs) + 1, "Context", <<>>)} :
          /\ parent' = Append(parent, c)
          /\ injs' = Append(injs, ContextInjectable(Len(parent) + 1))
          /\ injectables' = Append(injectables, r.map)
          /\ qualifiedTypes' = r.qts
          /\ last' = Call("createChildContext", c, NullQ, <<>>, Ok(CtxV(Len(parent) + 1)), Ok(NullV), NoQuery)
    /\ active' = Len(parent) + 1
    /\ UNCHANGED promises

\* A faulty createChildContext: the new context gets no parent, new Context(null).
CreateChildWithin_Orphan(c, max) ==
    /\ Len(parent) < max
    /\ \E r \in {SetInjectable(<<>>, qualifiedTypes, Len(injs) + 1, "Context", <<>>)} :
          /\ parent' = Append(parent, 0)
          /\ injs' = Append(injs, ContextInjectable(Len(parent) + 1))
          /\ injectables' = Append(injectables, r.map)
          /\ qualifiedTypes' = r.qts
          /\ last' = Call("createChildContext", c, NullQ, <<>>, Ok(CtxV(Len(parent) + 1)), Ok(NullV), NoQuery)
    /\ UNCHANGED <<active, promises>>

\* createChildContext in a program that creates at most max contexts
CreateChildWithin(c, max) ==
    /\ Len(parent) < max
    /\ \E r \in {SetInjectable(<<>>, qualifiedTypes, Len(injs) + 1, "Context", <<>>)} :
          /\ parent' = Append(parent, c)
          /\ injs' = Append(injs, ContextInjectable(Len(parent) + 1))
          /\ injectables' = Append(injectables, r.map)
          /\ qualifiedTypes' = r.qts
          /\ last' = Call("createChildContext", c, NullQ, <<>>, Ok(CtxV(Len(parent) + 1)), Ok(NullV), NoQuery)
    /\ UNCHANGED <<active, promises>>

CreateChildContext(c) == CreateChildWithin(c, MaxCtx)

(***************************************************************************)
(* Context.activate                                                        *)
(***************************************************************************)
\* A faulty activate: it returns the context it activated.
Activate_ReturnsThis(c) ==
    /\ active' = c
    /\ last' = Call("activate", c, NullQ, <<>>, Ok(CtxV(c)), Ok(NullV), NoQuery)
    /\ UNCHANGED <<parent, injectables, injs, promises, qualifiedTypes>>

\* Context.isActive
IsActive(c) == active = c

Activate(c) ==
    /\ active' = c
    /\ last' = Call("activate", c, NullQ, <<>>, Ok(CtxV(active)), Ok(NullV), NoQuery)
    /\ UNCHANGED <<parent, injectables, injs, promises, qualifiedTypes>>

(***************************************************************************)
(* Context.setClass / Context.setFactory with declaration d: the inject    *)
(* array is evaluated, the Injectable is created and registered.  max      *)
(* bounds the number of registrations.                                     *)
(***************************************************************************)
Register(c, d, max) ==
    /\ Len(injs) - Len(parent) < max
    /\ \E ps \in {EvalQualifiers(qualifiedTypes, Def(d).params, 1, <<>>)} :
       \E r \in {SetInjectable(injectables[c], ps.qts, Len(injs) + 1, Def(d).type, Def(d).names)} :
          /\ injs' = Append(injs, NewInjectable(Def(d).type, Def(d).recipe, ps.qs, Def(d).names,
                                                Def(d).scope, Def(d).value))
          /\ injectables' = [injectables EXCEPT ![c] = r.map]
          /\ qualifiedTypes' = r.qts
          /\ last' = Call("set", c, TypeQ(Def(d).type), <<>>, Ok(CtxV(c)), Ok(NullV), NoQuery)
    /\ UNCHANGED <<parent, active, promises>>

(***************************************************************************)
(* Context.remove                                                          *)
(***************************************************************************)
BoolV(b) == [k |-> "bool", by |-> 0, n |-> IF b THEN 1 ELSE 0, args |-> <<>>, act |-> 0]

\* A faulty removal: the whole map is cleared.
MapDelete_Clear(map, q) == [x \in {} |-> 0]

\* Map.delete: the map without the entry
MapDelete(map, q) == [x \in DOMAIN map \ {q} |-> map[x]]

\* Map.delete: whether there was an entry
MapHas(map, q) == q \in DOMAIN map

\* A faulty remove: the entry is deleted from the maps of all contexts.
Remove_Everywhere(c, qi) ==
    \E e \in {EvalQualifier(qualifiedTypes, qi)} :
        /\ injectables' = [x \in DOMAIN injectables |-> MapDelete(injectables[x], e.q)]
        /\ qualifiedTypes' = e.qts
        /\ last' = Call("remove", c, e.q, <<>>, Ok(BoolV(MapHas(injectables[c], e.q))), Ok(NullV), NoQuery)
        /\ UNCHANGED <<parent, active, injs, promises>>

Remove(c, qi) ==
    \E e \in {EvalQualifier(qualifiedTypes, qi)} :
        /\ injectables' = [injectables EXCEPT ![c] = MapDelete(@, e.q)]
        /\ qualifiedTypes' = e.qts
        /\ last' = Call("remove", c, e.q, <<>>, Ok(BoolV(MapHas(injectables[c], e.q))), Ok(NullV), NoQuery)
        /\ UNCHANGED <<parent, active, injs, promises>>

(***************************************************************************)
(* Context.get, Context.getSync, Context.getAsync                          *)
(***************************************************************************)
\* the promise an async function returns: it settles as the body ended
WrapperV(out) == [k |-> "wrapper", by |-> 0, n |-> 0, args |-> <<>>, act |-> 0, out |-> out]

\* A faulty getSync: it returns whatever this.get(qualifier) returned.
SyncResult_Unchecked(out, q) == out

\* the body of getSync after this.get(qualifier) returned
SyncResult(out, q) ==
    IF out.err = "" /\ IsPromise(out.v) THEN Err("SyncRequiredOnAsync", q, 0) ELSE out

\* A faulty getAsync that is no async function: it returns or throws as this.get(qualifier) did.
AsyncResult_Unwrapped(out) == out

\* what getAsync returns, given how this.get(qualifier) ended
AsyncResult(out) == Ok(WrapperV(out))

\* The effect of a query on the heap, and its record.
Query(op, c, q, args, r, out, qts) ==
    /\ WithinBounds(r.st)
    /\ injs' = r.st.injs
    /\ promises' = r.st.promises
    /\ active' = r.st.active
    /\ qualifiedTypes' = qts
    /\ last' = Call(op, c, q, args, out, r.out, r.st)
    /\ UNCHANGED <<parent, injectables>>

Get(c, qi, args) ==
    \E e \in {EvalQualifier(qualifiedTypes, qi)} :
    \E r \in {CtxGet(Start, c, e.q, args)} :
        Query("get", c, e.q, args, r, r.out, e.qts)

\* A faulty getSync: when it throws for a promise, the heap is as it was before the call.
GetSync_RollingBack(c, qi, args) ==
    \E e \in {EvalQualifier(qualifiedTypes, qi)} :
    \E r \in {CtxGet(Start, c, e.q, args)} :
        Query("getSync", c, e.q, args,
              IF r.out.err = "" /\ IsPromise(r.out.v) THEN Result([Start EXCEPT !.invoked = r.st.invoked], r.out) ELSE r,
              SyncResult(r.out, e.q), e.qts)

GetSync(c, qi, args) ==
    \E e \in {EvalQualifier(qualifiedTypes, qi)} :
    \E r \in {CtxGet(Start, c, e.q, args)} :
        Query("getSync", c, e.q, args, r, SyncResult(r.out, e.q), e.qts)

GetAsync(c, qi, args) ==
    \E e \in {EvalQualifier(qualifiedTypes, qi)} :
    \E r \in {CtxGet(Start, c, e.q, args)} :
        Query("getAsync", c, e.q, args, r, AsyncResult(r.out), e.qts)

(***************************************************************************)
(* Context.setFunction: createParams, and a call of a resolved callable.   *)
(***************************************************************************)
\* params[index] of JavaScript, index counting from 0: undefined beyond the end
At(params, index) == IF index < Len(params) THEN params[index + 1] ELSE NullV

RECURSIVE CreateParamsFrom(_, _, _, _, _, _, _)
\* inject.map(qualifier => qualifier == null ? callParams[callParamIndex++]
\*                                            : injectParams[injectParamIndex++]), from entry k on
CreateParamsFrom(inject, injectParams, callParams, k, injectParamIndex, callParamIndex, acc) ==
    IF k > Len(inject) THEN acc
    ELSE IF inject[k] = NullQ
         THEN CreateParamsFrom(inject, injectParams, callParams, k + 1, injectParamIndex,
                               callParamIndex + 1, Append(acc, At(callParams, callParamIndex)))
         ELSE CreateParamsFrom(inject, injectParams, callParams, k + 1, injectParamIndex + 1,
                               callParamIndex, Append(acc, At(injectParams, injectParamIndex)))

\* A faulty createParams: the injected values first, then the arguments of the caller.
createParams_InjectedFirst(inject, injectParams, callParams) == injectParams \o callParams

createParams(inject, injectParams, callParams) ==
    CreateParamsFrom(inject, injectParams, callParams, 1, 0, 0, <<>>)

\* User code calls, with callParams, the callable that the slot of injectable i holds.
CallFunction(i, callParams) ==
    /\ injs[i].instance.k = "fn"
    /\ last' = Call("call", 0, NullQ, callParams,
                    Ok(CallV(injs[i].instance.f,
                             createParams(Inject(injs[i].instance.f), injs[i].instance.args, callParams))),
                    Ok(injs[i].instance), NoQuery)
    /\ UNCHANGED <<parent, active, injectables, injs, promises, qualifiedTypes>>

(***************************************************************************)
(* A call of qualify(type, name) by user code.                             *)
(***************************************************************************)
CallQualify(t, n) ==
    \E r \in {qualify(qualifiedTypes, t, n)} :
        /\ qualifiedTypes' = r.qts
        /\ last' = Call("qualify", 0, r.q, <<>>, Ok(NullV), Ok(NullV), NoQuery)
        /\ UNCHANGED <<parent, active, injectables, injs, promises>>

(***************************************************************************)
(* Context.has and Context.findContext                                     *)
(***************************************************************************)
\* A faulty has: the parents are not asked.
Has_LocalOnly(c, q) == MapHas(injectables[c], q)

RECURSIVE HasIn(_, _, _, _)
\* this.#injectables.has(qualifier) || (this.#parent?.has(qualifier) === true), given the parents
\* and the maps of the contexts
HasIn(parents, maps, c, q) ==
    MapHas(maps[c], q) \/ (parents[c] # 0 /\ HasIn(parents, maps, parents[c], q))

\* Context.has in the current state
Has(c, q) == HasIn(parent, injectables, c, q)

RECURSIVE FindContext_Farthest(_, _)
\* A faulty findContext: the parents are asked first.
FindContext_Farthest(c, q) ==
    IF parent[c] # 0 /\ FindContext_Farthest(parent[c], q) # 0 THEN FindContext_Farthest(parent[c], q)
    ELSE IF MapHas(injectables[c], q) THEN c ELSE 0

RECURSIVE FindContext(_, _)
\* this.#injectables.has(qualifier) ? this : (this.#parent?.findContext(qualifier) ?? null); 0 is null
FindContext(c, q) ==
    IF MapHas(injectables[c], q) THEN c
    ELSE IF parent[c] # 0 THEN FindContext(parent[c], q) ELSE 0

\* A call of has by user code.
CallHas(c, qi) ==
    \E e \in {EvalQualifier(qualifiedTypes, qi)} :
        /\ qualifiedTypes' = e.qts
        /\ last' = Call("has", c, e.q, <<>>, Ok(BoolV(Has(c, e.q))), Ok(NullV), NoQuery)
        /\ UNCHANGED <<parent, active, injectables, injs, promises>>

\* the context a findContext returns as a value, null for 0
ContextOrNull(c) == IF c = 0 THEN NullV ELSE CtxV(c)

\* A call of findContext by user code.
CallFindContext(c, qi) ==
    \E e \in {EvalQualifier(qualifiedTypes, qi)} :
        /\ qualifiedTypes' = e.qts
        /\ last' = Call("findContext", c, e.q, <<>>, Ok(ContextOrNull(FindContext(c, e.q))), Ok(NullV), NoQuery)
        /\ UNCHANGED <<parent, active, injectables, injs, promises>>

(***************************************************************************)
(* Promise jobs.  A promise is pending until its reactions run; the        *)
(* reaction Injectable.#getSingletonInstance attached is the first one of  *)
(* a promise, so it runs before any code that observes the settlement.     *)
(***************************************************************************)
\* A faulty reaction: a null value is not stored, the slot keeps the promise.
DeliverSlots_NonNull(is, slots, v) ==
    [i \in DOMAIN is |-> IF i \in slots /\ v # NullV THEN [is[i] EXCEPT !.instance = v] ELSE is[i]]

\* A faulty reaction: the settled value is never stored, the slot keeps the promise.
DeliverSlots_Never(is, slots, v) == is

\* instance => (this.#instance = instance), for every injectable that attached it
DeliverSlots(is, slots, v) ==
    [i \in DOMAIN is |-> IF i \in slots THEN [is[i] EXCEPT !.instance = v] ELSE is[i]]

\* A faulty reaction: a rejection empties the slots that hold the promise.
RejectSlots_Cleared(is, slots) ==
    [i \in DOMAIN is |-> IF i \in slots THEN [is[i] EXCEPT !.instance = NullV] ELSE is[i]]

\* then(...) without a rejection handler: a rejection leaves the slots as they are
RejectSlots(is, slots) == is

\* The promise of an asynchronous recipe settles.
Settle(p) ==
    /\ promises[p].state = "pending"
    /\ promises[p].phase = "run"
    /\ IF promises[p].will = "fulfil"
       THEN /\ promises' = [promises EXCEPT ![p].state = "fulfilled"]
            /\ injs' = DeliverSlots(injs, promises[p].slots, promises[p].val)
       ELSE /\ promises' = [promises EXCEPT ![p].state = "rejected"]
            /\ injs' = RejectSlots(injs, promises[p].slots)
    /\ last' = Call("settle", 0, NullQ, <<>>, Ok(PromiseV(p)), Ok(NullV), NoQuery)
    /\ UNCHANGED <<parent, active, injectables, qualifiedTypes>>

\* await Promise.all(values): the value of each entry once all are fulfilled
Awaited(ps, v) == IF IsPromise(v) THEN ps[v.n].val ELSE v

\* A faulty join: the awaited values are handed over in reverse order.
AwaitedAll_Reversed(ps, vals) == [k \in 1..Len(vals) |-> Awaited(ps, vals[Len(vals) + 1 - k])]

AwaitedAll(ps, vals) == [k \in 1..Len(vals) |-> Awaited(ps, vals[k])]

AllFulfilled(ps, vals) ==
    \A k \in 1..Len(vals) : IsPromise(vals[k]) => ps[vals[k].n].state = "fulfilled"

SomeRejected(ps, vals) ==
    \E k \in 1..Len(vals) : IsPromise(vals[k]) /\ ps[vals[k].n].state = "rejected"

\* The continuation of the async function of Injectable.#createNewInstance, once Promise.all has
\* settled: it rejects with a rejected parameter, or invokes the recipe with the awaited values.
\* The promise of an asynchronous recipe is adopted: the promise of the join settles as it does.
RunJoin(p) ==
    /\ promises[p].state = "pending"
    /\ promises[p].phase = "join"
    /\ \/ /\ SomeRejected(promises, promises[p].vals)
          /\ promises' = [promises EXCEPT ![p].state = "rejected"]
          /\ injs' = RejectSlots(injs, promises[p].slots)
          /\ last' = Call("join", 0, NullQ, <<>>, Ok(PromiseV(p)), Ok(NullV), NoQuery)
       \/ /\ AllFulfilled(promises, promises[p].vals)
          /\ \E r \in {InvokeRecipe(Start, promises[p].inj, AwaitedAll(promises, promises[p].vals))} :
                /\ \A i \in 1..Len(r.st.injs) : r.st.injs[i].calls <= MaxCalls
                /\ IF Threw(r)
                   THEN /\ promises' = [promises EXCEPT ![p].state = "rejected"]
                        /\ injs' = RejectSlots(r.st.injs, promises[p].slots)
                   ELSE IF IsPromise(r.out.v)
                   THEN /\ promises' = [promises EXCEPT
                                           ![p] = [r.st.promises[r.out.v.n] EXCEPT !.slots = promises[p].slots]]
                        /\ injs' = r.st.injs
                   ELSE /\ promises' = [promises EXCEPT ![p].state = "fulfilled", ![p].val = r.out.v]
                        /\ injs' = DeliverSlots(r.st.injs, promises[p].slots, r.out.v)
                /\ last' = Call("join", 0, NullQ, <<>>, Ok(PromiseV(p)), Ok(NullV), r.st)
    /\ UNCHANGED <<parent, active, injectables, qualifiedTypes>>

(***************************************************************************)
(* The programs under analysis.  Each specification starts from Init and   *)
(* lets user code make the calls of one family of programs, in any order   *)
(* and any number of times within the bounds, interleaved with the promise *)
(* jobs that are ready to run.                                             *)
(***************************************************************************)

\* Programs that register and query, in the root context, a chain of classes with an
\* asynchronous singleton at its end: Top (prototype) -> Test (singleton) -> AsyncDep.
AsyncDefs == {"AsyncDep", "Test", "Top"}
AsyncQueries == {TypeQ("AsyncDep"), TypeQ("Test"), TypeQ("Top")}

NextAsync ==
    \/ \E c \in Contexts, d \in AsyncDefs : Register(c, d, MaxDecl)
    \/ \E c \in Contexts, qi \in AsyncQueries : Get(c, qi, <<>>)
    \/ \E c \in Contexts, qi \in AsyncQueries : GetSync(c, qi, <<>>)
    \/ \E c \in Contexts, qi \in AsyncQueries : GetAsync(c, qi, <<>>)
    \/ \E p \in 1..Len(promises) : Settle(p)
    \/ \E p \in 1..Len(promises) : RunJoin(p)

SpecAsync == Init /\ [][NextAsync]_vars

\* Programs that register and query, in the root context, asynchronous singleton factories: one
\* whose promise fulfils with a new object, one whose promise fulfils with null.
SlotDefs == {"AsyncDep", "AsyncNull"}
SlotQueries == {TypeQ("AsyncDep"), TypeQ("AsyncNull")}

NextSlot ==
    \/ \E c \in Contexts, d \in SlotDefs : Register(c, d, MaxReg)
    \/ \E c \in Contexts, qi \in SlotQueries : Get(c, qi, <<>>)
    \/ \E c \in Contexts, qi \in SlotQueries : GetSync(c, qi, <<>>)
    \/ \E p \in 1..Len(promises) : Settle(p)

SpecSlot == Init /\ [][NextSlot]_vars

\* Programs that register and query, in the root context, prototype-scoped classes and factories.
ProtoDefs == {"Proto", "ProtoAsync", "ProtoConst"}
ProtoQueries == {TypeQ("Proto"), TypeQ("ProtoAsync"), TypeQ("ProtoConst")}

NextProto ==
    \/ \E c \in Contexts, d \in ProtoDefs : Register(c, d, MaxReg)
    \/ \E c \in Contexts, qi \in ProtoQueries : Get(c, qi, <<>>)
    \/ \E c \in Contexts, qi \in ProtoQueries : GetSync(c, qi, <<>>)
    \/ \E c \in Contexts, qi \in ProtoQueries : GetAsync(c, qi, <<>>)
    \/ \E p \in 1..Len(promises) : Settle(p)

SpecProto == Init /\ [][NextProto]_vars

\* Programs that register, in the root context, two implementations of a base class under a name.
TypesDefs == {"Impl1", "Impl2"}
TypesQueries == {TypeQ("Impl1"), TypeQ("Impl2"), TypeQ("Base"), TypeQ("Object"), NameQ("n1"),
                 PairQ("Impl1", "n1"), PairQ("Base", "n1"), PairQ("Object", "n1")}

NextTypes ==
    \/ \E c \in Contexts, d \in TypesDefs : Register(c, d, MaxDecl)
    \/ \E c \in Contexts, qi \in TypesQueries : Get(c, qi, <<>>)

SpecTypes == Init /\ [][NextTypes]_vars

\* Programs that build a tree of contexts and register, remove and query a named class in it.
TreeDefs == {"Impl1"}
TreeQueries == {TypeQ("Base"), NameQ("n1")}
TreeRemovals == {TypeQ("Base")}

Next ==
    \/ \E c \in Contexts : CreateChildContext(c)
    \/ \E c \in Contexts, d \in TreeDefs : Register(c, d, MaxReg)
    \/ \E c \in Contexts, qi \in TreeRemovals : Remove(c, qi)
    \/ \E c \in Contexts, qi \in TreeQueries : Get(c, qi, <<>>)

Spec == Init /\ [][Next]_vars

\* Programs that build a tree of contexts and register and query in it a named class and a
\* factory that yields null, both of the same base class.
NullDefs == {"Impl1", "NullImpl"}
NullQueries == {TypeQ("Base")}

NextNull ==
    \/ \E c \in Contexts : CreateChildContext(c)
    \/ \E c \in Contexts, d \in NullDefs : Register(c, d, MaxReg)
    \/ \E c \in Contexts, qi \in NullQueries : Get(c, qi, <<>>)

SpecNull == Init /\ [][NextNull]_vars

\* Programs that build a tree of contexts, register and remove a named class in it, and ask
\* the contexts what they have.
HasQueries == {TypeQ("Base"), NameQ("n1"), TypeQ("Context")}

NextHas ==
    \/ \E c \in Contexts : CreateChildContext(c)
    \/ \E c \in Contexts, d \in TreeDefs : Register(c, d, MaxReg)
    \/ \E c \in Contexts, qi \in TreeRemovals : Remove(c, qi)
    \/ \E c \in Contexts, qi \in TreeRemovals : Get(c, qi, <<>>)
    \/ \E c \in Contexts, qi \in HasQueries : CallHas(c, qi)
    \/ \E c \in Contexts, qi \in HasQueries : CallFindContext(c, qi)

SpecHas == Init /\ [][NextHas]_vars

\* Programs that build a tree of contexts and register in it two implementations of a base
\* class under the same name, one over the other, and query the base class.
NextOverwrite ==
    \/ \E c \in Contexts : CreateChildContext(c)
    \/ \E c \in Contexts, d \in TypesDefs : Register(c, d, MaxReg)
    \/ \E c \in Contexts, qi \in TreeRemovals : Get(c, qi, <<>>)

SpecOverwrite == Init /\ [][NextOverwrite]_vars

\* Programs that build a tree of contexts, activate contexts, and register, remove and query in
\* it a class that depends on the Context type.
ActiveDefs == {"Owner"}
ActiveQueries == {TypeQ("Owner")}

NextActive ==
    \/ \E c \in Contexts : CreateChildContext(c)
    \/ \E c \in Contexts : Activate(c)
    \/ \E c \in Contexts, d \in ActiveDefs : Register(c, d, MaxReg)
    \/ \E c \in Contexts, qi \in ActiveQueries : Remove(c, qi)
    \/ \E c \in Contexts, qi \in ActiveQueries : CallHas(c, qi)
    \/ \E c \in Contexts, qi \in ActiveQueries : CallFindContext(c, qi)
    \/ \E c \in Contexts, qi \in ActiveQueries : Get(c, qi, <<>>)

SpecActive == Init /\ [][NextActive]_vars

\* Programs that build a tree of contexts, activate contexts, register in the root context a
\* prototype class with two pass-through parameters and a service, and the service as a class, as
\* an asynchronous factory or as a factory that throws, and query the class on any context with
\* and without arguments.
RestoreDefs == {"Component", "Service", "ServiceAsync", "ServiceFailing"}
RestoreQueries == {TypeQ("Component")}
RestoreArgs == {<<>>, <<PrimV(1), PrimV(7)>>}

NextRestore ==
    \/ \E c \in Contexts : CreateChildContext(c)
    \/ \E c \in Contexts : Activate(c)
    \/ \E d \in RestoreDefs : Register(1, d, MaxReg)
    \/ \E c \in Contexts, qi \in RestoreQueries, args \in RestoreArgs : Get(c, qi, args)
    \/ \E c \in Contexts, qi \in RestoreQueries : GetSync(c, qi, <<PrimV(1), PrimV(7)>>)
    \/ \E c \in Contexts, qi \in RestoreQueries : GetAsync(c, qi, <<PrimV(1), PrimV(7)>>)

SpecRestore == Init /\ [][NextRestore]_vars

\* Programs that register, in the root context, a prototype class with the parameters
\* [null, Service, null] and its service, as a class or as an asynchronous factory, and query the
\* class with no, too few and enough arguments, among them the promises that queries of the
\* service returned.
PassDefs == {"Component", "Service", "ServiceAsync"}
PassPlainArgs == {<<>>, <<PrimV(1)>>, <<PrimV(1), PrimV(7)>>}
PassPromiseArgs == {<<PromiseV(p), PrimV(7)>> : p \in {x \in 1..Len(promises) : promises[x].phase = "run"}}

NextPass ==
    \/ \E d \in PassDefs : Register(1, d, MaxReg)
    \/ \E args \in PassPlainArgs \cup PassPromiseArgs : Get(1, TypeQ("Component"), args)
    \/ Get(1, TypeQ("Service"), <<>>)
    \/ \E p \in 1..Len(promises) : Settle(p)
    \/ \E p \in 1..Len(promises) : RunJoin(p)

SpecPass == Init /\ [][NextPass]_vars

\* Programs that build trees of up to MaxTree contexts, creating children of any context, and
\* activate contexts.
NextTree ==
    \/ \E c \in Contexts : CreateChildWithin(c, MaxTree)
    \/ \E c \in Contexts : Activate(c)

SpecTree == Init /\ [][NextTree]_vars

\* Programs that build a tree of contexts, overwrite the Context entry of a context with a
\* factory, remove it, and query the Context type with has, findContext and get.
SelfDefs == {"ContextFactory"}
SelfQueries == {TypeQ("Context")}

NextSelf ==
    \/ \E c \in Contexts : CreateChildContext(c)
    \/ \E c \in Contexts, d \in SelfDefs : Register(c, d, MaxOverwrite)
    \/ \E c \in Contexts, qi \in SelfQueries : Remove(c, qi)
    \/ \E c \in Contexts, qi \in SelfQueries : CallHas(c, qi)
    \/ \E c \in Contexts, qi \in SelfQueries : CallFindContext(c, qi)
    \/ \E c \in Contexts, qi \in SelfQueries : Get(c, qi, <<>>)

SpecSelf == Init /\ [][NextSelf]_vars

\* Programs that build a tree of contexts, register a class and the service it depends on in
\* any of the contexts, and query the class on any context.
OwnerDefs == {"User", "Service"}
OwnerQueries == {TypeQ("User")}

NextOwner ==
    \/ \E c \in Contexts : CreateChildContext(c)
    \/ \E c \in Contexts, d \in OwnerDefs : Register(c, d, MaxDecl)
    \/ \E c \in Contexts, qi \in OwnerQueries : Get(c, qi, <<>>)

SpecOwner == Init /\ [][NextOwner]_vars

\* Programs that register and query, in the root context, singleton factories that yield null:
\* one that returns null, one whose promise fulfils with null.
NullSlotDefs == {"NullImpl", "AsyncNull"}
NullSlotQueries == {TypeQ("Impl2"), TypeQ("AsyncNull")}

NextNullSlot ==
    \/ \E d \in NullSlotDefs : Register(1, d, MaxReg)
    \/ \E qi \in NullSlotQueries : Get(1, qi, <<>>)
    \/ \E p \in 1..Len(promises) : Settle(p)

SpecNullSlot == Init /\ [][NextNullSlot]_vars

\* Programs that register, in the root context, a singleton service whose promise rejects and
\* a singleton class that depends on it, and query them with get and getSync.
PoisonDefs == {"ServiceReject", "User"}
PoisonQueries == {TypeQ("Service"), TypeQ("User")}

NextPoison ==
    \/ \E d \in PoisonDefs : Register(1, d, MaxDecl)
    \/ \E qi \in PoisonQueries : Get(1, qi, <<>>)
    \/ \E qi \in PoisonQueries : GetSync(1, qi, <<>>)
    \/ \E p \in 1..Len(promises) : Settle(p)
    \/ \E p \in 1..Len(promises) : RunJoin(p)

SpecPoison == Init /\ [][NextPoison]_vars

\* Programs that register, in the root context, a singleton class with two singleton
\* dependencies, and the dependencies, in any order, and query the class in between.
RetryDefs == {"Pair", "Service", "DepBSync"}
RetryQueries == {TypeQ("Pair")}

NextRetry ==
    \/ \E d \in RetryDefs : Register(1, d, MaxDecl)
    \/ \E qi \in RetryQueries : Get(1, qi, <<>>)

SpecRetry == Init /\ [][NextRetry]_vars

\* Programs that build a tree of contexts, register and remove a named class in it, ask the
\* contexts what they have, and query them with get, getSync and getAsync.
AbsentQueries == {TypeQ("Base"), NameQ("n1")}

NextAbsent ==
    \/ \E c \in Contexts : CreateChildContext(c)
    \/ \E c \in Contexts, d \in TreeDefs : Register(c, d, MaxOverwrite)
    \/ \E c \in Contexts, qi \in AbsentQueries : Remove(c, qi)
    \/ \E c \in Contexts, qi \in AbsentQueries : CallHas(c, qi)
    \/ \E c \in Contexts, qi \in AbsentQueries : CallFindContext(c, qi)
    \/ \E c \in Contexts, qi \in AbsentQueries : Get(c, qi, <<>>)
    \/ \E c \in Contexts, qi \in AbsentQueries : GetSync(c, qi, <<>>)
    \/ \E c \in Contexts, qi \in AbsentQueries : GetAsync(c, qi, <<>>)

SpecAbsent == Init /\ [][NextAbsent]_vars

\* Programs that register, in the root context, a class with a pass-through placeholder before
\* or after its service, as a singleton or as a prototype, and the service, and query the class
\* with no, one and two arguments.
SingleDefs == {"SingleFirst", "SingleAfter", "SingleProto", "Service"}
SingleQueries == {TypeQ("Single"), TypeQ("Service")}
SingleArgs == {<<>>, <<PrimV(1)>>, <<PrimV(1), PrimV(7)>>}

NextSingle ==
    \/ \E d \in SingleDefs : Register(1, d, MaxDecl)
    \/ \E qi \in SingleQueries, args \in SingleArgs : Get(1, qi, args)

SpecSingle == Init /\ [][NextSingle]_vars

\* Programs that register, in the root context, the function callSpy with the inject array
\* ["a", null, "b", null] under a name, and values or an asynchronous factory under the names
\* "a" and "b", resolve the function by itself and by its name, and call what they got.
FuncDefs == {"ValueA", "ValueB", "AsyncB", "callSpy"}
FuncQueries == {TypeQ("callSpy"), NameQ("f1")}
FuncCallParams == {<<>>, <<PrimV(11)>>, <<PrimV(11), PrimV(12)>>}

NextFunc ==
    \/ \E d \in FuncDefs : Register(1, d, MaxDecl)
    \/ \E qi \in FuncQueries : Get(1, qi, <<>>)
    \/ \E p \in 1..Len(promises) : Settle(p)
    \/ \E p \in 1..Len(promises) : RunJoin(p)
    \/ \E i \in 1..Len(injs), callParams \in FuncCallParams : CallFunction(i, callParams)

SpecFunc == Init /\ [][NextFunc]_vars

\* Programs that register and query, in the root context, a singleton service whose factory
\* throws or whose promise rejects, and a singleton class that depends on the service.
FailDefs == {"ServiceFailing", "ServiceReject", "User"}
FailQueries == {TypeQ("Service"), TypeQ("User")}

NextFail ==
    \/ \E d \in FailDefs : Register(1, d, MaxReg)
    \/ \E qi \in FailQueries : Get(1, qi, <<>>)
    \/ \E p \in 1..Len(promises) : Settle(p)
    \/ \E p \in 1..Len(promises) : RunJoin(p)

SpecFail == Init /\ [][NextFail]_vars

\* Programs that register and query, in the root context, the chain Top (prototype) -> Test
\* (singleton) -> AsyncDep whose end is missing, is an asynchronous factory, or is a prototype
\* class with a pass-through parameter.
ChainDefs == {"Top", "Test", "AsyncDep", "NeedsArg"}
ChainQueries == {TypeQ("Top"), TypeQ("Test"), TypeQ("AsyncDep")}
ChainArgs == {<<>>, <<PrimV(1)>>}

NextChain ==
    \/ \E d \in ChainDefs : Register(1, d, MaxDecl)
    \/ \E qi \in ChainQueries, args \in ChainArgs : Get(1, qi, args)
    \/ \E qi \in ChainQueries, args \in ChainArgs : GetAsync(1, qi, args)

SpecChain == Init /\ [][NextChain]_vars

\* Programs that call qualify for classes and names, and register and query, in the root
\* context, a named implementation of a base class by qualified types.
QualifyTypes == {"Impl1", "Base"}
QualifyNames == {"n1", "n2"}
QualifyQueries == {PairQ("Base", "n1"), PairQ("Base", "n2")}

NextQualify ==
    \/ \E t \in QualifyTypes, n \in QualifyNames : CallQualify(t, n)
    \/ \E d \in TreeDefs : Register(1, d, MaxReg)
    \/ \E qi \in QualifyQueries : Get(1, qi, <<>>)

SpecQualify == Init /\ [][NextQualify]_vars

\* Programs that build a tree of contexts, activate contexts, register in the root context an
\* asynchronous factory and a class that depends on it, and query the class on any context
\* while the promise jobs run in between.
LateDefs == {"AsyncDep", "Test"}
LateQueries == {TypeQ("Test")}

NextLate ==
    \/ \E c \in Contexts : CreateChildContext(c)
    \/ \E c \in Contexts : Activate(c)
    \/ \E d \in LateDefs : Register(1, d, MaxReg)
    \/ \E c \in Contexts, qi \in LateQueries : Get(c, qi, <<>>)
    \/ \E p \in 1..Len(promises) : Settle(p)
    \/ \E p \in 1..Len(promises) : RunJoin(p)

SpecLate == Init /\ [][NextLate]_vars

\* Programs that register and query, in the root context, a class with two dependencies, the
\* first an asynchronous factory, the second an asynchronous factory or a class, while the
\* promises settle in any order.
JoinDefs == {"DepA", "DepB", "DepBSync", "Both"}
JoinQueries == {TypeQ("Both")}

NextJoin ==
    \/ \E d \in JoinDefs : Register(1, d, MaxDecl)
    \/ \E qi \in JoinQueries : Get(1, qi, <<>>)
    \/ \E p \in 1..Len(promises) : Settle(p)
    \/ \E p \in 1..Len(promises) : RunJoin(p)

SpecJoin == Init /\ [][NextJoin]_vars

(***************************************************************************)
(* Properties.                                                             *)
(***************************************************************************)
IsQuery(call) == call.op \in {"get", "getSync", "getAsync"}

\* The singleton injectable i holds a promise in its slot that has not settled.
InFlight(i) ==
    /\ injs[i].scope = SINGLETON
    /\ IsPromise(injs[i].instance)
    /\ promises[injs[i].instance.n].state = "pending"

\* C1 (in-flight collapse): while the promise in the slot of an asynchronously constructed
\* singleton is pending, every query leaves the slot and the number of recipe invocations as
\* they are, a top-level query for it returns that same promise, and a join created for a
\* dependent producer waits on that same promise; the step that put the promise of the
\* asynchronous recipe into the empty slot invoked the recipe exactly once, and no step invokes
\* it again while that promise is pending.
C1_InFlightCollapse ==
    [][\A i \in 1..Len(injs) :
          /\ (InFlight(i) /\ IsQuery(last')) =>
                /\ injs'[i].instance = injs[i].instance
                /\ injs'[i].calls = injs[i].calls
                /\ MapGet(injectables[last'.c], last'.q) = i => last'.raw = Ok(injs[i].instance)
                /\ \A p \in (Len(promises) + 1)..Len(promises') :
                      promises'[p].phase = "join" =>
                          \A k \in 1..Len(promises'[p].vals) :
                              MapGet(injectables[last'.c], injs[promises'[p].inj].params[k]) = i
                                  => promises'[p].vals[k] = injs[i].instance
          /\ (/\ injs[i].scope = SINGLETON
              /\ injs[i].instance = NullV
              /\ IsPromise(injs'[i].instance)
              /\ promises'[injs'[i].instance.n].phase = "run") =>
                /\ injs'[i].calls = injs[i].calls + 1
                /\ injs'[i].instance.n > Len(promises)
          /\ (InFlight(i) /\ promises[injs[i].instance.n].phase = "run") =>
                injs'[i].calls = injs[i].calls
      ]_vars

\* C1 witness: get(Test) returned the pending join of Test, which waits on the pending promise
\* in the slot of AsyncDep, and the query invoked no recipe: AsyncDep was requested before.
C1_Witness ==
    /\ last.op = "get"
    /\ last.q = TypeQ("Test")
    /\ last.invoked = <<>>
    /\ last.raw.err = ""
    /\ IsPromise(last.raw.v)
    /\ promises[last.raw.v.n].state = "pending"
    /\ promises[last.raw.v.n].phase = "join"
    /\ \E i \in 1..Len(injs) :
          /\ injs[i].type = "AsyncDep"
          /\ InFlight(i)
          /\ injs[i].calls = 1
          /\ promises[last.raw.v.n].vals = <<injs[i].instance>>

\* The state of a cache slot: 0 empty, 1 a promise, 2 a settled value.
SlotRank(instance) == IF instance = NullV THEN 0 ELSE IF IsPromise(instance) THEN 1 ELSE 2

\* C2 (slot monotonicity), as claimed: the slot of a singleton only moves forward through
\* empty, promise, settled value: no step takes it to an earlier state, replaces the promise
\* it holds by another promise, or changes a settled value; the slot of a prototype is empty
\* after every step.
C2_SlotMonotonic ==
    [][\A i \in 1..Len(injs) :
          /\ injs[i].scope = PROTOTYPE => injs'[i].instance = NullV
          /\ injs[i].scope = SINGLETON =>
                /\ SlotRank(injs'[i].instance) >= SlotRank(injs[i].instance)
                /\ SlotRank(injs'[i].instance) = SlotRank(injs[i].instance)
                       => injs'[i].instance = injs[i].instance
      ]_vars

C4_SyncRequiredOnAsync ==
    last.op = "getSync" =>
        /\ (last.raw.err = "" /\ IsPromise(last.raw.v)) => last.out = Err("SyncRequiredOnAsync", last.q, 0)
        /\ last.out.err = "" => ~IsPromise(last.out.v)

\* C4 witness: getSync threw SyncRequiredOnAsync for a qualifier whose promise is still pending.
C4_Witness ==
    /\ last.op = "getSync"
    /\ last.out.err = "SyncRequiredOnAsync"
    /\ last.out.q = last.q
    /\ promises[last.raw.v.n].state = "pending"

\* The prototype-scoped injectable a query record resolved through, 0 if none (the programs of
\* SpecProto use the root context only).
ProtoOf(call) ==
    IF IsQuery(call) /\ MapGet(injectables[call.c], call.q) # 0
                     /\ injs[MapGet(injectables[call.c], call.q)].scope = PROTOTYPE
    THEN MapGet(injectables[call.c], call.q)
    ELSE 0

\* C5 (prototype scope), as claimed: every query for a prototype-scoped producer invokes its
\* recipe once more, and what it returns differs from what the query before it returned for
\* the same producer: another value, or another promise that fulfils with another value.
C5_PrototypeDistinct ==
    [][\A i \in 1..Len(injs) :
          (IsQuery(last') /\ i = MapGet(injectables[last'.c], last'.q) /\ injs[i].scope = PROTOTYPE) =>
              /\ injs'[i].calls = injs[i].calls + 1
              /\ ProtoOf(last) = i =>
                    /\ last'.raw # last.raw
                    /\ (IsPromise(last'.raw.v) /\ IsPromise(last.raw.v)) =>
                           promises'[last'.raw.v.n].val # promises'[last.raw.v.n].val
      ]_vars

\* C5 (prototype scope), amended: every query for a prototype-scoped producer invokes its recipe
\* exactly once more, caches nothing, and returns what that invocation returned.  The results
\* are distinct when every invocation of the recipe creates its own result: a constructor or a
\* creating factory gives an object no earlier query returned, an asynchronous one a new promise
\* that fulfils with such an object; a factory that returns the same value on every call gives
\* that value on every query.
C5_PrototypeFresh ==
    [][\A i \in 1..Len(injs) :
          (IsQuery(last') /\ i = MapGet(injectables[last'.c], last'.q) /\ injs[i].scope = PROTOTYPE) =>
              /\ injs'[i].calls = injs[i].calls + 1
              /\ last'.invoked = <<i>>
              /\ injs'[i].instance = NullV
              /\ last'.raw.err = ""
              /\ injs[i].recipe = "new" =>
                    /\ last'.raw.v.k = "obj"
                    /\ last'.raw.v.by = i
                    /\ last'.raw.v.n = injs[i].calls + 1
              /\ injs[i].recipe = "async" =>
                    /\ IsPromise(last'.raw.v)
                    /\ last'.raw.v.n = Len(promises) + 1
                    /\ promises'[last'.raw.v.n].val.k = "obj"
                    /\ promises'[last'.raw.v.n].val.by = i
                    /\ promises'[last'.raw.v.n].val.n = injs[i].calls + 1
                    /\ \A p \in 1..Len(promises) : promises[p].val # promises'[last'.raw.v.n].val
              /\ injs[i].recipe = "value" => last'.raw.v = injs[i].value
      ]_vars

\* C5 witness: the second query for a prototype-scoped class returned the second object.
C5_Witness ==
    /\ last.op = "get"
    /\ ProtoOf(last) # 0
    /\ injs[ProtoOf(last)].recipe = "new"
    /\ injs[ProtoOf(last)].calls = 2
    /\ last.raw.v = ObjV(ProtoOf(last), 2, <<>>, 1)

\* C6 (plain value or promise): get returns a promise exactly when some Injectable.get of the
\* resolution, of the queried producer or of a dependency at any depth, returned a promise; it
\* returns a plain value exactly when all of them returned plain values.
C6_PromiseIffAsync ==
    (last.op = "get" /\ last.out.err = "") => (IsPromise(last.out.v) <=> last.saw)

\* C6 witness: get(Top) returned a promise although Top and its dependency Test are synchronous
\* classes: the dependency AsyncDep of Test is asynchronous and still pending.
C6_Witness ==
    /\ last.op = "get"
    /\ last.q = TypeQ("Top")
    /\ last.out.err = ""
    /\ IsPromise(last.out.v)
    /\ promises[last.out.v.n].phase = "join"
    /\ injs[promises[last.out.v.n].inj].type = "Top"

\* C7 (getAsync): getAsync always returns a promise and never throws: the promise fulfils with
\* the value of a synchronous dependency, follows the promise of an asynchronous one, and
\* rejects with the NotFound error of a qualifier that is not registered.
C7_GetAsyncReturnsPromise ==
    last.op = "getAsync" =>
        /\ last.out.err = ""
        /\ last.out.v.k = "wrapper"
        /\ last.out.v.out = last.raw
        /\ MapGet(injectables[last.c], last.q) = 0 => last.out.v.out = Err("NotFound", last.q, 0)

\* C7 witness: getAsync of a qualifier that is not registered returned a promise that rejects
\* with NotFound.
C7_Witness ==
    /\ last.op = "getAsync"
    /\ last.out.err = ""
    /\ last.out.v.k = "wrapper"
    /\ last.out.v.out.err = "NotFound"

\* The classes of the programs of SpecTypes: a class and all its ancestors up to Object.
SelfAndAncestors(t) == IF t \in {"Impl1", "Impl2"} THEN {t, "Base", "Object"} ELSE {t, "Object"}

\* C8 (registration fan-out): after a producer with type T and names N is registered in context
\* c, the map of c has that one producer under T and under every ancestor of T up to Object,
\* under every name of N, and under the interned QualifiedType of every pair of T or an
\* ancestor with a name of N; and a get through any qualifier that maps to a singleton returns
\* the instance in the slot of that singleton, the same one whatever the qualifier.
C8_RegistrationFanOut ==
    [][/\ last'.op = "set" =>
             \A t \in SelfAndAncestors(injs'[Len(injs')].type) :
                 /\ MapGet(injectables'[last'.c], TypeQ(t)) = Len(injs')
                 /\ \A k \in 1..Len(injs'[Len(injs')].names) :
                       /\ MapGet(injectables'[last'.c], NameQ(injs'[Len(injs')].names[k])) = Len(injs')
                       /\ \E id \in 1..Len(qualifiedTypes') :
                             /\ qualifiedTypes'[id] = <<t, injs'[Len(injs')].names[k]>>
                             /\ MapGet(injectables'[last'.c],
                                       QualifiedType(t, injs'[Len(injs')].names[k], id)) = Len(injs')
       /\ \A i \in 1..Len(injs) :
             (last'.op = "get" /\ MapGet(injectables[last'.c], last'.q) = i /\ injs[i].scope = SINGLETON) =>
                 /\ last'.out = Ok(injs'[i].instance)
                 /\ injs[i].instance # NullV => injs'[i].instance = injs[i].instance
      ]_vars

\* C8 witness: a get through the pair (Object, "n1") returned, without constructing anything,
\* the instance of an Impl1 singleton that an earlier get through another qualifier created.
C8_Witness ==
    /\ last.op = "get"
    /\ last.q.k = "qt"
    /\ last.q.t = "Object"
    /\ last.invoked = <<>>
    /\ \E i \in 1..Len(injs) :
          /\ injs[i].type = "Impl1"
          /\ MapGet(injectables[last.c], last.q) = i
          /\ MapGet(injectables[last.c], TypeQ("Impl1")) = i
          /\ MapGet(injectables[last.c], TypeQ("Base")) = i
          /\ MapGet(injectables[last.c], NameQ("n1")) = i
          /\ last.out = Ok(ObjV(i, 1, <<>>, last.c))

\* C9 (nearest context), as claimed: get(q) on context c returns the instance of the producer
\* that the nearest context from c towards the root with q in its own map has for q, and throws
\* NotFound naming q exactly when no context on that path has q.
C9_NearestContext ==
    [][last'.op = "get" =>
          IF FindContext(last'.c, last'.q) = 0
          THEN last'.out = Err("NotFound", last'.q, 0)
          ELSE last'.out = Ok(injs'[MapGet(injectables[FindContext(last'.c, last'.q)], last'.q)].instance)
      ]_vars

\* C10 (remove frame): remove(q) on context c deletes the entry of q from the map of c and
\* nothing else, returns whether the map of c had the entry, and leaves the maps of all other
\* contexts, the producers and the tree of contexts as they are: in particular a child's
\* remove of a qualifier only its parent has returns false and the parent keeps its entry.
C10_RemoveFrame ==
    [][last'.op = "remove" =>
          /\ last'.out = Ok(BoolV(last'.q \in DOMAIN injectables[last'.c]))
          /\ DOMAIN injectables'[last'.c] = DOMAIN injectables[last'.c] \ {last'.q}
          /\ \A x \in DOMAIN injectables'[last'.c] : injectables'[last'.c][x] = injectables[last'.c][x]
          /\ \A c \in Contexts \ {last'.c} : injectables'[c] = injectables[c]
          /\ Len(injectables') = Len(injectables)
          /\ injs' = injs
          /\ parent' = parent
      ]_vars

\* C10 witness: a child context's remove of a qualifier that only its parent has returned false,
\* and the parent still has the entry.
C10_Witness ==
    /\ last.op = "remove"
    /\ last.out = Ok(BoolV(FALSE))
    /\ parent[last.c] # 0
    /\ last.q \in DOMAIN injectables[parent[last.c]]
    /\ injs[injectables[parent[last.c]][last.q]].type = "Impl1"

\* The contexts on the path from context c to the root.
RECURSIVE PathUp(_)
PathUp(c) == IF c = 0 THEN {} ELSE {c} \cup PathUp(parent[c])

\* C11 (has after remove), as claimed: after remove(q) on context c, has(q) on c returns false,
\* and has on c returns true for every other qualifier that c mapped to the same producer.
C11_HasFalseAfterRemove ==
    [][last'.op = "remove" =>
          /\ ~HasIn(parent', injectables', last'.c, last'.q)
          /\ \A q2 \in DOMAIN injectables[last'.c] \ {last'.q} : HasIn(parent', injectables', last'.c, q2)
      ]_vars

\* C11 (has after remove), amended: after remove(q) on context c the own map of c has no entry
\* for q, so has(q) on c returns true exactly when an ancestor of c has an entry for q, and
\* false on the root and wherever no ancestor has one; has on c still returns true for every
\* other qualifier that c mapped, among them the other qualifiers of the same producer.
C11_HasAfterRemove ==
    [][last'.op = "remove" =>
          /\ ~MapHas(injectables'[last'.c], last'.q)
          /\ HasIn(parent', injectables', last'.c, last'.q) <=>
                \E a \in PathUp(parent[last'.c]) : last'.q \in DOMAIN injectables[a]
          /\ \A q2 \in DOMAIN injectables[last'.c] \ {last'.q} :
                /\ HasIn(parent', injectables', last'.c, q2)
                /\ injectables'[last'.c][q2] = injectables[last'.c][q2]
      ]_vars

\* C11 witness: a child context removed its own entry of Base, and has(Base) on the child is
\* still true because its parent has Base, as has("n1"), the other qualifier of the producer.
C11_Witness ==
    /\ last.op = "remove"
    /\ last.q = TypeQ("Base")
    /\ last.out = Ok(BoolV(TRUE))
    /\ parent[last.c] # 0
    /\ ~MapHas(injectables[last.c], last.q)
    /\ MapHas(injectables[last.c], NameQ("n1"))
    /\ Has(last.c, last.q)
    /\ Has(last.c, NameQ("n1"))

\* C12 (has): has(q) on context c returns true exactly when c or one of its ancestors has an
\* entry for q, and the call invokes no recipe and changes no producer, promise, map or the
\* active context.
C12_HasIsPureLookup ==
    [][last'.op = "has" =>
          /\ last'.out = Ok(BoolV(\E a \in PathUp(last'.c) : last'.q \in DOMAIN injectables[a]))
          /\ last'.invoked = <<>>
          /\ injs' = injs
          /\ promises' = promises
          /\ active' = active
          /\ injectables' = injectables
      ]_vars

\* C12 witness: has(Base) on a child context returned true although only its parent has Base,
\* and the singleton registered there has not been constructed.
C12_Witness ==
    /\ last.op = "has"
    /\ last.q = TypeQ("Base")
    /\ last.out = Ok(BoolV(TRUE))
    /\ parent[last.c] # 0
    /\ ~MapHas(injectables[last.c], last.q)
    /\ MapHas(injectables[parent[last.c]], last.q)
    /\ injs[injectables[parent[last.c]][last.q]].instance = NullV
    /\ injs[injectables[parent[last.c]][last.q]].calls = 0

\* C13 (findContext): findContext(q) on context c returns the first context on the path from c
\* to the root whose own map has q: a context of the path that has q, with no context between
\* c and it that has q; it returns null when no context of the path has q.
C13_FindContextNearest ==
    last.op = "findContext" =>
        IF \E a \in PathUp(last.c) : last.q \in DOMAIN injectables[a]
        THEN \E a \in PathUp(last.c) :
                /\ last.out = Ok(CtxV(a))
                /\ last.q \in DOMAIN injectables[a]
                /\ \A b \in PathUp(last.c) \ PathUp(a) : last.q \notin DOMAIN injectables[b]
        ELSE last.out = Ok(NullV)

\* C13 witness: findContext(Base) on a child returned the child although its parent has Base too.
C13_Witness ==
    /\ last.op = "findContext"
    /\ last.q = TypeQ("Base")
    /\ parent[last.c] # 0
    /\ last.out = Ok(CtxV(last.c))
    /\ MapHas(injectables[parent[last.c]], last.q)

\* Whether q is a qualifier a producer of the given type and names is registered under.
IsQualifierOf(q, type, names) ==
    \/ q.k = "type" /\ q.t \in SelfAndAncestors(type)
    \/ q.k = "name" /\ \E k \in 1..Len(names) : q.n = names[k]
    \/ q.k = "qt" /\ q.t \in SelfAndAncestors(type) /\ \E k \in 1..Len(names) : q.n = names[k]

\* C14 (overwrite): registering a producer in context c replaces the entry of every qualifier of
\* the new producer that c already maps by the new producer, keeps every other entry of c, and
\* leaves the maps of all other contexts and all earlier producers unchanged.
C14_OverwriteLocal ==
    [][last'.op = "set" =>
          /\ \A q \in DOMAIN injectables[last'.c] :
                /\ q \in DOMAIN injectables'[last'.c]
                /\ injectables'[last'.c][q] =
                      IF IsQualifierOf(q, injs'[Len(injs')].type, injs'[Len(injs')].names)
                      THEN Len(injs')
                      ELSE injectables[last'.c][q]
          /\ \A c \in Contexts \ {last'.c} : injectables'[c] = injectables[c]
          /\ Len(injectables') = Len(injectables)
          /\ \A i \in 1..Len(injs) : injs'[i] = injs[i]
      ]_vars

\* C14 witness: Impl2 was registered in a child context that had Impl1: the child now maps Base
\* and "n1" to the new producer and Impl1 to the old one, and a get(Base) constructed the new one.
C14_Witness ==
    /\ last.op = "get"
    /\ parent[last.c] # 0
    /\ last.q = TypeQ("Base")
    /\ MapHas(injectables[last.c], TypeQ("Impl1"))
    /\ MapHas(injectables[last.c], TypeQ("Impl2"))
    /\ injectables[last.c][TypeQ("Impl1")] < injectables[last.c][TypeQ("Impl2")]
    /\ injectables[last.c][TypeQ("Base")] = injectables[last.c][TypeQ("Impl2")]
    /\ injectables[last.c][NameQ("n1")] = injectables[last.c][TypeQ("Impl2")]
    /\ last.out = Ok(ObjV(injectables[last.c][TypeQ("Impl2")], 1, <<>>, last.c))

\* C15 (activate): activate() on context c makes c the active context and returns the context
\* that was active before the call; afterwards isActive is true for c and for no other context.
C15_ActivateReturnsPrevious ==
    [][last'.op = "activate" =>
          /\ active' = last'.c
          /\ last'.out = Ok(CtxV(active))
          /\ \A c \in Contexts : IsActive(c)' <=> c = last'.c
      ]_vars

\* C15 witness: a child context was activated while the root was active, and the call returned
\* the root.
C15_Witness ==
    /\ last.op = "activate"
    /\ last.c # 1
    /\ last.out = Ok(CtxV(1))
    /\ IsActive(last.c)
    /\ ~IsActive(1)

\* C16 (active pointer frame): no call but activate() changes the active context:
\* createChildContext, the registrations, remove, has, findContext and a completed lookup leave
\* it as it was, and a newly created child is not active.
C16_OnlyActivateChangesActive ==
    [][/\ active' # active => last'.op = "activate"
       /\ last'.op \in {"createChildContext", "set", "remove", "has", "findContext"} => active' = active
       /\ Len(parent') > Len(parent) => active' # Len(parent')
      ]_vars

\* C16 witness: the active context created a child, and is still the active one.
C16_Witness ==
    /\ last.op = "createChildContext"
    /\ IsActive(last.c)
    /\ last.out = Ok(CtxV(Len(parent)))
    /\ parent[Len(parent)] = last.c
    /\ ~IsActive(Len(parent))

\* C18 (owning context is active during construction): when a get on context c constructs
\* synchronously a producer registered in context O, the nearest context from c towards the
\* root that has the qualifier, then the active context at the invocation of its recipe is O,
\* and its Context parameter resolves to O: not the queried context, not the context that was
\* active when the caller made the call.
C18_OwnerActiveDuringConstruction ==
    [][(last'.op = "get" /\ last'.invoked # <<>>) =>
          /\ FindContext(last'.c, last'.q) # 0
          /\ last'.invoked[Len(last'.invoked)] = injectables[FindContext(last'.c, last'.q)][last'.q]
          /\ last'.out.err = ""
          /\ last'.out.v.k = "obj"
          /\ last'.out.v.by = last'.invoked[Len(last'.invoked)]
          /\ last'.out.v.act = FindContext(last'.c, last'.q)
          /\ last'.out.v.args = <<CtxV(FindContext(last'.c, last'.q))>>
      ]_vars

\* C18 witness: a get on the active child context constructed the Owner registered in the
\* root: the recipe ran with the root active and received the root.
C18_Witness ==
    /\ last.op = "get"
    /\ last.c # 1
    /\ IsActive(last.c)
    /\ last.invoked # <<>>
    /\ last.out = Ok(ObjV(last.invoked[Len(last.invoked)], 1, <<CtxV(1)>>, 1))

\* C17 (the active context is restored): whatever a get, getSync or getAsync returns or
\* throws, and whatever contexts the lookup walked through and activated on the way, the active
\* context after the call is the context that was active before it.
C17_ActiveRestored ==
    [][IsQuery(last') => active' = active]_vars

\* C17 witness: a query on a context that is not the active one failed in a nested lookup: the
\* recipe of the service, which the parent of the queried context holds, threw while the
\* parameters of the component were resolved.
C17_Witness ==
    /\ last.op = "get"
    /\ ~IsActive(last.c)
    /\ last.out.err = "RecipeError"
    /\ last.q = TypeQ("Component")
    /\ parent[last.c] # 0
    /\ ~MapHas(injectables[last.c], TypeQ("Service"))
    /\ last.invoked # <<>>

\* The injectables whose recipe the call invoked.
Invoked(call) == {call.invoked[k] : k \in 1..Len(call.invoked)}

\* C19 (pass-through parameters, as stated): the recipe of the prototype class with the
\* parameters [null, Service, null] receives the first argument of the caller, the instance of
\* the service and the second argument of the caller, whether it is invoked by the query or,
\* when the service is still a promise, by the continuation of the query.
C19_PassThroughInOrder ==
    [][/\ (last'.op = "get" /\ last'.q = TypeQ("Component") /\ MapGet(injectables[last'.c], last'.q) \in Invoked(last')) =>
             /\ last'.out.err = ""
             /\ last'.out.v.by = MapGet(injectables[last'.c], last'.q)
             /\ last'.out.v.args = <<last'.args[1],
                                     injs'[MapGet(injectables[last'.c], TypeQ("Service"))].instance,
                                     last'.args[2]>>
       /\ (last'.op = "join" /\ last'.invoked # <<>> /\ injs[last'.invoked[1]].type = "Component") =>
             /\ promises'[last'.out.v.n].state = "fulfilled"
             /\ promises'[last'.out.v.n].val.by = last'.invoked[1]
             /\ promises'[last'.out.v.n].val.args = <<promises[last'.out.v.n].vals[1],
                                                     Awaited(promises, promises[last'.out.v.n].vals[2]),
                                                     promises[last'.out.v.n].vals[3]>>
      ]_vars

\* C19 (pass-through parameters, amended): the values of the parameters are the first argument
\* of the caller, what the lookup of the service returned, and the second argument of the
\* caller, in this order.  If none of them is a promise the query invokes the recipe with them.
\* If one is a promise (the service, or an argument of the caller) the query returns a promise
\* without invoking the recipe, and the continuation invokes it with the values the promises
\* fulfilled with in place of the promises.
C19_PassThroughAwaited ==
    [][/\ (last'.op = "get" /\ last'.q = TypeQ("Component") /\ MapGet(injectables[last'.c], last'.q) \in Invoked(last')) =>
             /\ last'.out.err = ""
             /\ last'.out.v.by = MapGet(injectables[last'.c], last'.q)
             /\ last'.out.v.args = <<last'.args[1],
                                     injs'[MapGet(injectables[last'.c], TypeQ("Service"))].instance,
                                     last'.args[2]>>
             /\ ~SomePromise(last'.out.v.args)
       /\ (last'.op = "get" /\ last'.q = TypeQ("Component") /\ last'.out.err = "" /\ IsPromise(last'.out.v)) =>
             /\ MapGet(injectables[last'.c], last'.q) \notin Invoked(last')
             /\ last'.out.v.n = Len(promises')
             /\ Len(promises') > Len(promises)
             /\ promises'[last'.out.v.n].phase = "join"
             /\ promises'[last'.out.v.n].inj = MapGet(injectables[last'.c], last'.q)
             /\ promises'[last'.out.v.n].vals = <<last'.args[1],
                                                  injs'[MapGet(injectables[last'.c], TypeQ("Service"))].instance,
                                                  last'.args[2]>>
             /\ SomePromise(promises'[last'.out.v.n].vals)
       /\ (last'.op = "join" /\ last'.invoked # <<>> /\ injs[last'.invoked[1]].type = "Component") =>
             /\ promises'[last'.out.v.n].state = "fulfilled"
             /\ promises'[last'.out.v.n].val.by = last'.invoked[1]
             /\ promises'[last'.out.v.n].val.args = AwaitedAll(promises, promises[last'.out.v.n].vals)
             /\ ~SomePromise(promises'[last'.out.v.n].val.args)
      ]_vars

\* C19 witness: the continuation of a query whose first argument was a promise has invoked the
\* recipe with the value of that promise, the instance of the service and the second argument.
C19_Witness ==
    /\ last.op = "join"
    /\ last.invoked # <<>>
    /\ injs[last.invoked[1]].type = "Component"
    /\ IsPromise(promises[last.out.v.n].vals[1])
    /\ promises[last.out.v.n].val.args[1] = promises[promises[last.out.v.n].vals[1].n].val
    /\ promises[last.out.v.n].val.args[2].k = "obj"
    /\ promises[last.out.v.n].val.args[3] = PrimV(7)

\* The positions of the pass-through placeholders in a parameter list.
Placeholders(params) == {j \in 1..Len(params) : params[j] = NullQ}

\* The position of the n-th placeholder of a parameter list that has at least n of them.
PlaceholderAt(params, n) ==
    CHOOSE j \in Placeholders(params) : Cardinality({m \in Placeholders(params) : m < j}) = n - 1

\* The qualifiers a parameter list declares before position j.
QualifiersBefore(params, j) == {params[m] : m \in {x \in 1..(j - 1) : params[x] # NullQ}}

\* C20 (missing pass-through argument, as stated): a get with k arguments for a prototype
\* producer that declares more than k placeholders throws PassThroughMissing with the index
\* k + 1 and the requested qualifier, and does not invoke the recipe of the producer.
C20_PassThroughMissing ==
    [][(/\ last'.op = "get"
        /\ FindContext(last'.c, last'.q) # 0
        /\ injs[injectables[FindContext(last'.c, last'.q)][last'.q]].scope = PROTOTYPE
        /\ Len(last'.args) < Cardinality(Placeholders(injs[injectables[FindContext(last'.c, last'.q)][last'.q]].params))) =>
             /\ last'.out = Err("PassThroughMissing", last'.q, Len(last'.args) + 1)
             /\ injectables[FindContext(last'.c, last'.q)][last'.q] \notin Invoked(last')
             /\ injs'[injectables[FindContext(last'.c, last'.q)][last'.q]].calls =
                    injs[injectables[FindContext(last'.c, last'.q)][last'.q]].calls
      ]_vars

\* C20 (missing pass-through argument, amended): such a get throws and does not invoke the
\* recipe of the producer.  The error is PassThroughMissing with the index k + 1 and the
\* requested qualifier if every qualifier declared before placeholder k + 1 is registered;
\* otherwise it is NotFound for the qualifier that is not.
C20_MissingAfterDependencies ==
    [][(/\ last'.op = "get"
        /\ FindContext(last'.c, last'.q) # 0
        /\ injs[injectables[FindContext(last'.c, last'.q)][last'.q]].scope = PROTOTYPE
        /\ Len(last'.args) < Cardinality(Placeholders(injs[injectables[FindContext(last'.c, last'.q)][last'.q]].params))) =>
             /\ injectables[FindContext(last'.c, last'.q)][last'.q] \notin Invoked(last')
             /\ injs'[injectables[FindContext(last'.c, last'.q)][last'.q]].calls =
                    injs[injectables[FindContext(last'.c, last'.q)][last'.q]].calls
             /\ IF \A d \in QualifiersBefore(injs[injectables[FindContext(last'.c, last'.q)][last'.q]].params,
                                             PlaceholderAt(injs[injectables[FindContext(last'.c, last'.q)][last'.q]].params,
                                                           Len(last'.args) + 1)) :
                      Has(FindContext(last'.c, last'.q), d)
                THEN last'.out = Err("PassThroughMissing", last'.q, Len(last'.args) + 1)
                ELSE /\ last'.out.err = "NotFound"
                     /\ last'.out.q \in QualifiersBefore(injs[injectables[FindContext(last'.c, last'.q)][last'.q]].params,
                                                        PlaceholderAt(injs[injectables[FindContext(last'.c, last'.q)][last'.q]].params,
                                                                      Len(last'.args) + 1))
                     /\ ~Has(FindContext(last'.c, last'.q), last'.out.q)
      ]_vars

\* C20 witness: a get with one argument for the class with two placeholders has resolved the
\* service declared between them and has thrown PassThroughMissing for placeholder 2.
C20_Witness ==
    /\ last.op = "get"
    /\ Len(last.args) = 1
    /\ last.out = Err("PassThroughMissing", TypeQ("Component"), 2)
    /\ last.invoked = <<MapGet(injectables[last.c], TypeQ("Service"))>>
    /\ injs[MapGet(injectables[last.c], TypeQ("Component"))].calls = 0

\* The recipe of the function producer whose invocation the call records, 0 if there is none.
FunctionInvoked(call) ==
    IF \E i \in Invoked(call) : injs[i].recipe = "function"
    THEN CHOOSE i \in Invoked(call) : injs[i].recipe = "function"
    ELSE 0

\* C21 (the resolved function interleaves injected values and arguments): the callable of a
\* function producer holds the values that the lookups of its qualifiers returned (the values
\* their promises fulfilled with, if the resolution was asynchronous), and a call of it calls
\* the function with one argument per entry of the inject array: at the i-th null entry the
\* i-th argument of the caller, at the j-th other entry the j-th value it holds.
C21_FunctionParams ==
    [][/\ (last'.op = "call") =>
             /\ last'.out.v = CallV(last'.raw.v.f, last'.out.v.args)
             /\ Len(last'.out.v.args) = Len(Inject(last'.raw.v.f))
             /\ \A j \in 1..Len(Inject(last'.raw.v.f)) :
                   last'.out.v.args[j] =
                       IF j \in Placeholders(Inject(last'.raw.v.f))
                       THEN At(last'.args, Cardinality({m \in Placeholders(Inject(last'.raw.v.f)) : m < j}))
                       ELSE last'.raw.v.args[j - Cardinality({m \in Placeholders(Inject(last'.raw.v.f)) : m < j})]
       /\ (last'.op = "get" /\ FunctionInvoked(last') # 0) =>
             /\ last'.out.v.k = "fn"
             /\ last'.out.v.by = FunctionInvoked(last')
             /\ last'.out.v.args =
                    [j \in 1..Len(injs[FunctionInvoked(last')].params) |->
                        injs'[MapGet(injectables[last'.c], injs[FunctionInvoked(last')].params[j])].instance]
       /\ (last'.op = "join" /\ FunctionInvoked(last') # 0) =>
             /\ promises'[last'.out.v.n].val.k = "fn"
             /\ promises'[last'.out.v.n].val.by = FunctionInvoked(last')
             /\ promises'[last'.out.v.n].val.args = AwaitedAll(promises, promises[last'.out.v.n].vals)
      ]_vars

\* C21 witness: the callable of callSpy, registered with ["a", null, "b", null] while "a" is 2
\* and "b" is 3, was called with (11, 12) and has called callSpy with (2, 11, 3, 12).
C21_Witness ==
    /\ last.op = "call"
    /\ last.args = <<PrimV(11), PrimV(12)>>
    /\ last.out = Ok(CallV(1, <<PrimV(2), PrimV(11), PrimV(3), PrimV(12)>>))

\* The promise in the slot of injectable i has rejected.
SlotRejected(i) == IsPromise(injs[i].instance) /\ promises[injs[i].instance.n].state = "rejected"

LeafError ==
    IF ~MapHas(injectables[1], TypeQ("AsyncDep"))
    THEN Err("NotFound", TypeQ("AsyncDep"), 0)
    ELSE IF /\ injs[injectables[1][TypeQ("AsyncDep")]].scope = PROTOTYPE
            /\ Placeholders(injs[injectables[1][TypeQ("AsyncDep")]].params) # {}
         THEN Err("PassThroughMissing", TypeQ("AsyncDep"), 1)
         ELSE Ok(NullV)

\* Test is registered in the root context and has not been constructed.
TestUnbuilt ==
    /\ MapHas(injectables[1], TypeQ("Test"))
    /\ SlotIsEmpty(injs[injectables[1][TypeQ("Test")]].instance)

\* C23 (a failed parameter aborts the chain): when the lookup of AsyncDep fails, a query of
\* Test, and a query of Top, which depends on Test, end with that error while Test has not been
\* constructed.  A query that ends with NotFound or PassThroughMissing, wherever in the chain
\* Top -> Test -> AsyncDep the lookup failed, has invoked no recipe and has left every slot and
\* every promise as it was; get throws the error and getAsync returns a promise rejected with it.
C23_FailureAbortsChain ==
    [][/\ (IsQuery(last') /\ last'.q = TypeQ("Test") /\ TestUnbuilt /\ LeafError.err # "") =>
             last'.raw = LeafError
       /\ (/\ IsQuery(last') /\ last'.q = TypeQ("Top") /\ MapHas(injectables[1], TypeQ("Top"))
           /\ TestUnbuilt /\ LeafError.err # "") =>
             last'.raw = LeafError
       /\ (IsQuery(last') /\ last'.raw.err \in {"NotFound", "PassThroughMissing"}) =>
          /\ last'.invoked = <<>>
          /\ injs' = injs
          /\ promises' = promises
          /\ last'.op = "get" => last'.out = last'.raw
          /\ last'.op = "getAsync" => last'.out = Ok(WrapperV(last'.raw))
      ]_vars

\* C23 witness: a get of Top, with Top and Test registered and AsyncDep a prototype class that
\* needs an argument, threw PassThroughMissing for AsyncDep, two levels down; Test and Top were
\* not constructed.
C23_Witness ==
    /\ last.op = "get"
    /\ last.q = TypeQ("Top")
    /\ last.out = Err("PassThroughMissing", TypeQ("AsyncDep"), 1)
    /\ MapHas(injectables[1], TypeQ("Test"))
    /\ injs[MapGet(injectables[1], TypeQ("Test"))].instance = NullV
    /\ \A i \in 1..Len(injs) : injs[i].calls = 0

\* C24 (qualify is interned): a call of qualify(type, name) returns the instance that an
\* earlier call (by user code or by a registration) created for this pair, if there is one, and
\* a new instance otherwise; no two instances are of the same pair, and every instance that
\* exists keeps existing, with its pair.
C24_QualifyInterned ==
    [][/\ last'.op = "qualify" =>
             /\ last'.q.k = "qt"
             /\ last'.q.id \in 1..Len(qualifiedTypes')
             /\ qualifiedTypes'[last'.q.id] = <<last'.q.t, last'.q.n>>
             /\ (\E j \in 1..Len(qualifiedTypes) : qualifiedTypes[j] = <<last'.q.t, last'.q.n>>) =>
                   /\ last'.q.id \in 1..Len(qualifiedTypes)
                   /\ qualifiedTypes[last'.q.id] = <<last'.q.t, last'.q.n>>
                   /\ qualifiedTypes' = qualifiedTypes
       /\ \A j, k \in 1..Len(qualifiedTypes') : qualifiedTypes'[j] = qualifiedTypes'[k] => j = k
       /\ Len(qualifiedTypes') >= Len(qualifiedTypes)
       /\ \A j \in 1..Len(qualifiedTypes) : qualifiedTypes'[j] = qualifiedTypes[j]
      ]_vars

\* C24 witness: qualify was called again for the pair of the first instance, after a second
\* instance had been created for another pair, and returned the first instance.
C24_Witness ==
    /\ last.op = "qualify"
    /\ last.q.id = 1
    /\ Len(qualifiedTypes) >= 2
    /\ qualifiedTypes[1] = <<last.q.t, last.q.n>>
    /\ qualifiedTypes[2] # qualifiedTypes[1]

\* C25 (activation covers only the synchronous part): a query that returns a pending promise
\* has restored the context that was active before it when it returns; the continuation that
\* invokes the recipe after the parameter promises have fulfilled activates nothing, so the
\* recipe runs with the context that is active at that time.
C25_RestoredBeforeSettlement ==
    [][/\ (IsQuery(last') /\ last'.out.err = "" /\ IsPromise(last'.out.v)) =>
             /\ promises'[last'.out.v.n].state = "pending"
             /\ active' = active
       /\ (last'.op = "join" /\ last'.invoked # <<>>) =>
             /\ active' = active
             /\ promises'[last'.out.v.n].val.k = "obj"
             /\ promises'[last'.out.v.n].val.act = active
      ]_vars

\* C25 witness: the recipe of the class registered in the root context ran in the continuation
\* while a child context was active.
C25_Witness ==
    /\ last.op = "join"
    /\ last.invoked # <<>>
    /\ MapGet(injectables[1], TypeQ("Test")) = last.invoked[1]
    /\ promises[last.out.v.n].val.act # 1
    /\ IsActive(promises[last.out.v.n].val.act)

\* The injectable under which the root context has the type t, 0 if it has none.
RootInjectable(t) == MapGet(injectables[1], TypeQ(t))

\* C26 (asynchronous parameters are joined): a query that constructs the class Both while the
\* value of one of its two parameters is a pending promise has looked up both parameters (the
\* slots of both dependencies are filled), has not invoked the recipe of Both, and returns a
\* pending promise over the two values in declaration order.  The continuation invokes the
\* recipe only when every promise among the values has fulfilled, once, with the value of the
\* first dependency first and the value of the second dependency second.
C26_JoinInOrder ==
    [][/\ (/\ last'.op = "get"
           /\ RootInjectable("Both") # 0 /\ RootInjectable("DepA") # 0 /\ RootInjectable("DepB") # 0
           /\ SlotIsEmpty(injs[RootInjectable("Both")].instance)
           /\ SomePromise(<<injs'[RootInjectable("DepA")].instance, injs'[RootInjectable("DepB")].instance>>)) =>
             /\ ~SlotIsEmpty(injs'[RootInjectable("DepA")].instance)
             /\ ~SlotIsEmpty(injs'[RootInjectable("DepB")].instance)
             /\ RootInjectable("Both") \notin Invoked(last')
             /\ injs'[RootInjectable("Both")].calls = injs[RootInjectable("Both")].calls
             /\ IsPromise(last'.out.v)
             /\ last'.out.v.n = Len(promises')
             /\ promises'[last'.out.v.n].state = "pending"
             /\ promises'[last'.out.v.n].phase = "join"
             /\ promises'[last'.out.v.n].inj = RootInjectable("Both")
             /\ promises'[last'.out.v.n].vals = <<injs'[RootInjectable("DepA")].instance,
                                                  injs'[RootInjectable("DepB")].instance>>
       /\ (last'.op = "join" /\ last'.invoked # <<>>) =>
             /\ AllFulfilled(promises, promises[last'.out.v.n].vals)
             /\ last'.invoked = <<promises[last'.out.v.n].inj>>
             /\ injs'[last'.invoked[1]].calls = injs[last'.invoked[1]].calls + 1
             /\ promises'[last'.out.v.n].state = "fulfilled"
             /\ Len(promises'[last'.out.v.n].val.args) = 2
             /\ \A k \in 1..2 :
                   promises'[last'.out.v.n].val.args[k] =
                       IF IsPromise(promises[last'.out.v.n].vals[k])
                       THEN promises[promises[last'.out.v.n].vals[k].n].val
                       ELSE promises[last'.out.v.n].vals[k]
             /\ injs[promises'[last'.out.v.n].val.args[1].by].type = "DepA"
             /\ injs[promises'[last'.out.v.n].val.args[2].by].type = "DepB"
       /\ \A p \in 1..Len(promises) :
             (promises[p].phase = "join" /\ promises[p].state # "pending") =>
                 injs'[promises[p].inj].calls = injs[promises[p].inj].calls
      ]_vars

\* C26 witness: the continuation has invoked the recipe of Both with the values of two
\* asynchronous dependencies, the promise of the first created before the promise of the second.
C26_Witness ==
    /\ last.op = "join"
    /\ last.invoked # <<>>
    /\ injs[last.invoked[1]].type = "Both"
    /\ injs[last.invoked[1]].calls = 1
    /\ IsPromise(promises[last.out.v.n].vals[1])
    /\ IsPromise(promises[last.out.v.n].vals[2])
    /\ promises[last.out.v.n].vals[1].n < promises[last.out.v.n].vals[2].n
    /\ promises[last.out.v.n].val.args = <<promises[promises[last.out.v.n].vals[1].n].val,
                                          promises[promises[last.out.v.n].vals[2].n].val>>

\* C27 (synchronous or asynchronous is decided per call): a query of the prototype class Top,
\* which depends on the singleton Test, returns a pending promise without invoking the recipe
\* of Top when the slot of Test holds a promise, and a new instance of Top made with the
\* instance of Test when the slot of Test holds the settled instance.
C27_DecidedPerCall ==
    [][(last'.op = "get" /\ last'.q = TypeQ("Top") /\ RootInjectable("Top") # 0 /\ RootInjectable("Test") # 0) =>
          /\ IsPromise(injs[RootInjectable("Test")].instance) =>
                /\ last'.out.err = ""
                /\ IsPromise(last'.out.v)
                /\ promises'[last'.out.v.n].state = "pending"
                /\ promises'[last'.out.v.n].vals = <<injs[RootInjectable("Test")].instance>>
                /\ RootInjectable("Top") \notin Invoked(last')
          /\ injs[RootInjectable("Test")].instance.k = "obj" =>
                /\ last'.invoked = <<RootInjectable("Top")>>
                /\ last'.out.err = ""
                /\ last'.out.v.k = "obj"
                /\ last'.out.v.by = RootInjectable("Top")
                /\ last'.out.v.args = <<injs[RootInjectable("Test")].instance>>
      ]_vars

\* C27 witness: a query of Top returned an instance, after an earlier query of the same
\* producer, made while Test was pending, had returned a promise.
C27_Witness ==
    /\ last.op = "get"
    /\ last.q = TypeQ("Top")
    /\ last.out.err = ""
    /\ last.out.v.k = "obj"
    /\ last.out.v.by = RootInjectable("Top")
    /\ \E p \in 1..Len(promises) :
          /\ promises[p].phase = "join"
          /\ promises[p].inj = RootInjectable("Top")
          /\ IsPromise(promises[p].vals[1])

\* C28 (a function producer is a singleton): the recipe of a function producer is invoked at
\* most once.  A query of the function or of its name, made when the slot of its producer holds
\* the callable or the promise of it, returns what the slot holds, invokes no recipe and changes
\* no slot and no promise; when the promise fulfils the slot holds the callable it fulfilled
\* with; and a call of the callable changes no slot and no promise.
C28_FunctionSingleton ==
    [][/\ \A i \in 1..Len(injs') : injs'[i].recipe = "function" => injs'[i].calls <= 1
       /\ (/\ last'.op = "get"
           /\ MapGet(injectables[last'.c], last'.q) # 0
           /\ injs[MapGet(injectables[last'.c], last'.q)].recipe = "function"
           /\ ~SlotIsEmpty(injs[MapGet(injectables[last'.c], last'.q)].instance)) =>
             /\ last'.out = Ok(injs[MapGet(injectables[last'.c], last'.q)].instance)
             /\ last'.invoked = <<>>
             /\ injs' = injs
             /\ promises' = promises
       /\ (last'.op = "join" /\ FunctionInvoked(last') # 0) =>
             \A i \in 1..Len(injs) : injs[i].instance = last'.out.v =>
                 /\ injs'[i].instance = promises'[last'.out.v.n].val
                 /\ injs'[i].instance.k = "fn"
       /\ last'.op = "call" => (injs' = injs /\ promises' = promises)
      ]_vars

\* C28 witness: a query by the name of the function returned the callable that the first
\* resolution had created, without invoking a recipe.
C28_Witness ==
    /\ last.op = "get"
    /\ last.q = NameQ("f1")
    /\ last.invoked = <<>>
    /\ last.out.err = ""
    /\ last.out.v.k = "fn"
    /\ injs[last.out.v.by].calls = 1
    /\ injs[last.out.v.by].instance = last.out.v

\* C29 (pass-through arguments and singletons, as stated): a get for a singleton producer
\* that declares a placeholder throws PassThroughMissing with the index 1 and the requested
\* qualifier, whatever arguments it is given.
C29_SingletonPassThrough ==
    [][(/\ last'.op = "get"
        /\ MapGet(injectables[last'.c], last'.q) # 0
        /\ injs[MapGet(injectables[last'.c], last'.q)].scope = SINGLETON
        /\ Placeholders(injs[MapGet(injectables[last'.c], last'.q)].params) # {}) =>
             last'.out = Err("PassThroughMissing", last'.q, 1)
      ]_vars

\* C29 (pass-through arguments and singletons, amended): such a get throws whatever arguments
\* it is given, does not invoke the recipe of the producer and leaves its slot empty.  The error
\* is PassThroughMissing with the index 1 and the requested qualifier if every qualifier declared
\* before the first placeholder is registered; otherwise it is NotFound for the qualifier that
\* is not.  A get for a prototype producer with the same parameters and enough arguments
\* invokes the recipe with the argument of the caller.
C29_SingletonIgnoresArguments ==
    [][/\ (/\ last'.op = "get"
           /\ MapGet(injectables[last'.c], last'.q) # 0
           /\ injs[MapGet(injectables[last'.c], last'.q)].scope = SINGLETON
           /\ Placeholders(injs[MapGet(injectables[last'.c], last'.q)].params) # {}) =>
             /\ MapGet(injectables[last'.c], last'.q) \notin Invoked(last')
             /\ injs'[MapGet(injectables[last'.c], last'.q)].calls = 0
             /\ SlotIsEmpty(injs'[MapGet(injectables[last'.c], last'.q)].instance)
             /\ IF \A d \in QualifiersBefore(injs[MapGet(injectables[last'.c], last'.q)].params,
                                             PlaceholderAt(injs[MapGet(injectables[last'.c], last'.q)].params, 1)) :
                      Has(last'.c, d)
                THEN last'.out = Err("PassThroughMissing", last'.q, 1)
                ELSE /\ last'.out.err = "NotFound"
                     /\ last'.out.q \in QualifiersBefore(injs[MapGet(injectables[last'.c], last'.q)].params,
                                                        PlaceholderAt(injs[MapGet(injectables[last'.c], last'.q)].params, 1))
                     /\ ~Has(last'.c, last'.out.q)
       /\ (/\ last'.op = "get"
           /\ MapGet(injectables[last'.c], last'.q) # 0
           /\ injs[MapGet(injectables[last'.c], last'.q)].scope = PROTOTYPE
           /\ Placeholders(injs[MapGet(injectables[last'.c], last'.q)].params) # {}
           /\ Len(last'.args) >= 1
           /\ Has(last'.c, TypeQ("Service"))) =>
             /\ last'.out.err = ""
             /\ last'.out.v.by = MapGet(injectables[last'.c], last'.q)
             /\ last'.out.v.args[PlaceholderAt(injs[MapGet(injectables[last'.c], last'.q)].params, 1)] = last'.args[1]
      ]_vars

\* C29 witness: a get with two arguments for the singleton class with the parameters
\* [Service, null] has resolved the service and has thrown PassThroughMissing for placeholder 1.
C29_Witness ==
    /\ last.op = "get"
    /\ Len(last.args) = 2
    /\ last.out = Err("PassThroughMissing", TypeQ("Single"), 1)
    /\ injs[MapGet(injectables[last.c], TypeQ("Single"))].scope = SINGLETON
    /\ injs[MapGet(injectables[last.c], TypeQ("Single"))].params[2] = NullQ
    /\ last.invoked = <<MapGet(injectables[last.c], TypeQ("Service"))>>
    /\ injs[MapGet(injectables[last.c], TypeQ("Single"))].calls = 0

\* Following getParent from context c reaches the root context within fuel steps.
RECURSIVE ReachesRoot(_, _, _)
ReachesRoot(par, c, fuel) ==
    /\ c # 0
    /\ \/ c = 1
       \/ fuel > 0 /\ ReachesRoot(par, par[c], fuel - 1)

\* C30 (contexts form a tree): initially there is only the root context, which has no parent
\* and is active.  At any time the root has no parent, every other context has one, and
\* following the parents from any context reaches the root in fewer steps than there are
\* contexts.  No step changes the parent of a context, and createChildContext on context c adds
\* one context, the one it returns, whose parent is c.
C30_ContextTree ==
    /\ parent = <<0>>
    /\ active = 1
    /\ [](/\ parent[1] = 0
          /\ \A c \in Contexts : ReachesRoot(parent, c, Len(parent) - 1)
          /\ \A c \in Contexts \ {1} : parent[c] \in Contexts \ {c})
    /\ [][/\ Len(parent') >= Len(parent)
          /\ \A c \in Contexts : parent'[c] = parent[c]
          /\ IF last'.op = "createChildContext"
             THEN /\ parent' = Append(parent, last'.c)
                  /\ last'.out = Ok(CtxV(Len(parent')))
             ELSE parent' = parent
         ]_vars

\* C30 witness: createChildContext on a context that is neither the root nor active has
\* created a context whose parent is that context and whose grandparent is the root.
C30_Witness ==
    /\ last.op = "createChildContext"
    /\ last.c # 1
    /\ last.c # active
    /\ parent[last.out.v.n] = last.c
    /\ parent[last.c] = 1
    /\ parent[1] = 0

\* The map of context c, given the maps of all contexts, has under the Context type the value
\* injectable that the constructor of a context registered (the programs register factories only).
OwnEntry(maps, is, c) ==
    /\ MapGet(maps[c], TypeQ("Context")) # 0
    /\ is[MapGet(maps[c], TypeQ("Context"))].recipe = "value"

\* C31 (a context registers itself): the root context has, initially, and a context returned by
\* createChildContext has, from its creation, an entry under the Context type in its own map
\* whose value is the context itself.  While the map of context c holds that entry, c.has(Context)
\* returns true, c.findContext(Context) returns c, and c.get(Context) returns c.
C31_ContextRegistersItself ==
    /\ OwnEntry(injectables, injs, 1)
    /\ injs[MapGet(injectables[1], TypeQ("Context"))].value = CtxV(1)
    /\ [][/\ last'.op = "createChildContext" =>
                /\ OwnEntry(injectables', injs', last'.out.v.n)
                /\ MapGet(injectables'[last'.out.v.n], TypeQ("Context")) = Len(injs')
                /\ Len(injs') = Len(injs) + 1
                /\ injs'[Len(injs')].value = last'.out.v
          /\ (last'.q = TypeQ("Context") /\ last'.op \in {"has", "findContext", "get"}
                 /\ OwnEntry(injectables, injs, last'.c)) =>
                /\ last'.op = "has" => last'.out = Ok(BoolV(TRUE))
                /\ last'.op = "findContext" => last'.out = Ok(CtxV(last'.c))
                /\ last'.op = "get" => last'.out = Ok(CtxV(last'.c))
         ]_vars

\* C31 witness: a get for the Context type on a child context returned the child, and the root
\* context still has its own entry.
C31_Witness ==
    /\ last.op = "get"
    /\ last.q = TypeQ("Context")
    /\ last.c # 1
    /\ last.out = Ok(CtxV(last.c))
    /\ OwnEntry(injectables, injs, 1)

\* The injectable that a lookup of q starting at context c finds first, 0 if there is none.
Nearest(c, q) == IF FindContext(c, q) = 0 THEN 0 ELSE injectables[FindContext(c, q)][q]

\* C32 (parameters are resolved from the owning context): let a get for the class User on
\* context c find the producer in context o, the nearest context on the path from c to the root
\* that registers User, with an empty slot.  Then the parameter of the construction is the
\* instance of the service producer that a lookup starting at o finds, whatever c and the
\* contexts between c and o register; if a lookup from o finds no service the get fails with
\* NotFound for the service, and the recipe of User is not invoked; and only the recipes of
\* these two producers are invoked.
C32_ParamsFromOwner ==
    [][(/\ last'.op = "get"
        /\ last'.q = TypeQ("User")
        /\ Nearest(last'.c, last'.q) # 0
        /\ SlotIsEmpty(injs[Nearest(last'.c, last'.q)].instance)) =>
             IF Nearest(FindContext(last'.c, last'.q), TypeQ("Service")) = 0
             THEN /\ last'.out = Err("NotFound", TypeQ("Service"), 0)
                  /\ last'.invoked = <<>>
             ELSE /\ last'.out = Ok(injs'[Nearest(last'.c, last'.q)].instance)
                  /\ Nearest(last'.c, last'.q) \in Invoked(last')
                  /\ last'.out.v.by = Nearest(last'.c, last'.q)
                  /\ last'.out.v.args = <<injs'[Nearest(FindContext(last'.c, last'.q), TypeQ("Service"))].instance>>
                  /\ last'.out.v.args[1].by = Nearest(FindContext(last'.c, last'.q), TypeQ("Service"))
                  /\ Invoked(last') \subseteq {Nearest(last'.c, last'.q),
                                               Nearest(FindContext(last'.c, last'.q), TypeQ("Service"))}
      ]_vars

\* C32 witness: the class is registered in the root context only, the service in the root and in
\* a child; a get for the class on the child has constructed it with the service of the root, and
\* the service of the child has not been constructed.
C32_Witness ==
    /\ last.op = "get"
    /\ last.q = TypeQ("User")
    /\ last.c # 1
    /\ FindContext(last.c, TypeQ("User")) = 1
    /\ FindContext(last.c, TypeQ("Service")) = last.c
    /\ Nearest(1, TypeQ("Service")) # 0
    /\ last.invoked = <<Nearest(1, TypeQ("Service")), Nearest(1, TypeQ("User"))>>
    /\ last.out.err = ""
    /\ last.out.v.args[1].by = Nearest(1, TypeQ("Service"))
    /\ injs[Nearest(last.c, TypeQ("Service"))].calls = 0

\* C33 (the cache belongs to the producer): the recipe of a singleton producer is invoked at most
\* once, whichever contexts were queried.  A get for the class User on any context c, made when
\* the slot of the producer that the parent walk from c finds holds an instance, returns that
\* instance, invokes no recipe and changes no slot; and the get that fills the slot returns
\* what it stored.
C33_SharedAcrossContexts ==
    [][/\ \A i \in 1..Len(injs') : injs'[i].calls <= 1
       /\ (/\ last'.op = "get"
           /\ Nearest(last'.c, last'.q) # 0
           /\ ~SlotIsEmpty(injs[Nearest(last'.c, last'.q)].instance)) =>
             /\ last'.out = Ok(injs[Nearest(last'.c, last'.q)].instance)
             /\ last'.invoked = <<>>
             /\ injs' = injs
       /\ (/\ last'.op = "get"
           /\ Nearest(last'.c, last'.q) \in Invoked(last')) =>
             /\ last'.out = Ok(injs'[Nearest(last'.c, last'.q)].instance)
             /\ last'.out.v.by = Nearest(last'.c, last'.q)
             /\ \A c \in Contexts : Nearest(c, last'.q) = Nearest(last'.c, last'.q) =>
                   CtxGet([injs |-> injs', promises |-> promises', active |-> active',
                           saw |-> FALSE, invoked |-> <<>>], c, last'.q, <<>>).out = last'.out
      ]_vars

\* C33 witness: a get on a child context, which does not register the class itself, returned
\* without invoking a recipe the instance that an earlier get had constructed in the owning root
\* context, the only construction of the producer.
C33_Witness ==
    /\ last.op = "get"
    /\ last.q = TypeQ("User")
    /\ last.c # 1
    /\ FindContext(last.c, last.q) = 1
    /\ last.invoked = <<>>
    /\ last.out = Ok(injs[Nearest(1, last.q)].instance)
    /\ last.out.v.act = 1
    /\ injs[Nearest(1, last.q)].calls = 1

RECURSIVE NearestYielding(_, _)
\* The nearest context on the path from c to the root whose map has for q a producer with a
\* recipe that yields an object, 0 if there is none.
NearestYielding(c, q) ==
    IF c = 0 THEN 0
    ELSE IF MapHas(injectables[c], q) /\ injs[injectables[c][q]].recipe # "null" THEN c
    ELSE NearestYielding(parent[c], q)

\* The producers for q with a recipe that yields null, from context c up to and without context o.
RECURSIVE NullProducers(_, _, _)
NullProducers(c, o, q) ==
    IF c = 0 \/ c = o THEN {}
    ELSE (IF MapHas(injectables[c], q) THEN {injectables[c][q]} ELSE {}) \cup NullProducers(parent[c], o, q)

HoldsRejected(is, ps, i) ==
    /\ IsPromise(is[i].instance)
    /\ ps[is[i].instance.n].state = "rejected"

\* C36 (a rejected construction stays cached): when the promise a singleton slot holds rejects,
\* the slot keeps it.  A slot that holds a rejected promise never changes and the recipe of its
\* producer is never invoked again; a get that finds the producer returns the rejected promise
\* and a getSync that finds it fails with SyncRequiredOnAsync, both without invoking a recipe.
C36_RejectedStaysCached ==
    [][/\ \A i \in 1..Len(injs) :
             (IsPromise(injs[i].instance) /\ promises'[injs[i].instance.n].state = "rejected") =>
                 /\ injs'[i].instance = injs[i].instance
                 /\ HoldsRejected(injs, promises, i) => injs'[i] = injs[i]
       /\ (/\ last'.op \in {"get", "getSync"}
           /\ MapGet(injectables[last'.c], last'.q) # 0
           /\ HoldsRejected(injs, promises, MapGet(injectables[last'.c], last'.q))) =>
             /\ last'.raw = Ok(injs[MapGet(injectables[last'.c], last'.q)].instance)
             /\ last'.invoked = <<>>
             /\ last'.op = "get" => last'.out = last'.raw
             /\ last'.op = "getSync" => last'.out = Err("SyncRequiredOnAsync", last'.q, 0)
      ]_vars

\* C36 witness: a getSync for the service, whose promise had rejected, failed with
\* SyncRequiredOnAsync; the recipe has been invoked once.
C36_Witness ==
    /\ last.op = "getSync"
    /\ last.q = TypeQ("Service")
    /\ last.out = Err("SyncRequiredOnAsync", last.q, 0)
    /\ HoldsRejected(injs, promises, MapGet(injectables[last.c], last.q))
    /\ last.invoked = <<>>
    /\ injs[MapGet(injectables[last.c], last.q)].calls = 1

C38_RetryKeepsParameters ==
    [][(/\ last'.op = "get"
        /\ last'.q = TypeQ("Pair")
        /\ MapGet(injectables[last'.c], last'.q) # 0
        /\ SlotIsEmpty(injs[MapGet(injectables[last'.c], last'.q)].instance)
        /\ MapGet(injectables[last'.c], TypeQ("Service")) # 0) =>
             /\ injs'[MapGet(injectables[last'.c], TypeQ("Service"))].instance.k = "obj"
             /\ injs'[MapGet(injectables[last'.c], TypeQ("Service"))].calls = 1
             /\ (MapGet(injectables[last'.c], TypeQ("Service")) \in Invoked(last'))
                    = SlotIsEmpty(injs[MapGet(injectables[last'.c], TypeQ("Service"))].instance)
             /\ IF MapGet(injectables[last'.c], TypeQ("DepB")) = 0
                THEN /\ last'.out = Err("NotFound", TypeQ("DepB"), 0)
                     /\ SlotIsEmpty(injs'[MapGet(injectables[last'.c], last'.q)].instance)
                     /\ injs'[MapGet(injectables[last'.c], last'.q)].calls = 0
                ELSE /\ last'.out = Ok(injs'[MapGet(injectables[last'.c], last'.q)].instance)
                     /\ last'.out.v.by = MapGet(injectables[last'.c], last'.q)
                     /\ injs'[MapGet(injectables[last'.c], last'.q)].calls = 1
                     /\ last'.out.v.args = <<injs'[MapGet(injectables[last'.c], TypeQ("Service"))].instance,
                                             injs'[MapGet(injectables[last'.c], TypeQ("DepB"))].instance>>
                     /\ injs'[MapGet(injectables[last'.c], TypeQ("DepB"))].calls = 1
      ]_vars

\* C38 witness: a get for Pair has succeeded by invoking the recipes of DepB and of Pair only,
\* with the instance of the service that an earlier, failed get had constructed.
C38_Witness ==
    /\ last.op = "get"
    /\ last.q = TypeQ("Pair")
    /\ last.out.err = ""
    /\ last.invoked = <<MapGet(injectables[last.c], TypeQ("DepB")), MapGet(injectables[last.c], TypeQ("Pair"))>>
    /\ last.out.v.args[1] = injs[MapGet(injectables[last.c], TypeQ("Service"))].instance
    /\ last.out.v.args[1].k = "obj"
    /\ injs[MapGet(injectables[last.c], TypeQ("Service"))].calls = 1
    /\ injs[MapGet(injectables[last.c], TypeQ("Pair"))].calls = 1

\* The qualifiers that some context maps, and the qualifiers the programs ask for.
KnownQualifiers == UNION {DOMAIN injectables[c] : c \in Contexts} \cup AbsentQueries

\* C39 (has, findContext and the lookups agree on what is absent): at any time, for every
\* context c and qualifier q, has(q) on c is true exactly when findContext(q) on c is a context.
\* A call of has returns that truth value and a call of findContext returns null exactly when
\* has is false.  When has(q) is false on c, get and getSync of q on c throw NotFound for q and
\* getAsync returns a promise that rejects with NotFound for q, and no recipe is invoked.
C39_AbsentEverywhere ==
    /\ [](\A c \in Contexts : \A q \in KnownQualifiers : Has(c, q) = (FindContext(c, q) # 0))
    /\ [][/\ last'.op = "has" => last'.out = Ok(BoolV(FindContext(last'.c, last'.q) # 0))
          /\ last'.op = "findContext" => (last'.out.v = NullV) = ~Has(last'.c, last'.q)
          /\ (last'.op \in {"get", "getSync", "getAsync"} /\ ~Has(last'.c, last'.q)) =>
                /\ last'.raw = Err("NotFound", last'.q, 0)
                /\ last'.invoked = <<>>
                /\ last'.op \in {"get", "getSync"} => last'.out = Err("NotFound", last'.q, 0)
                /\ last'.op = "getAsync" => last'.out = Ok(WrapperV(Err("NotFound", last'.q, 0)))
         ]_vars

\* C39 witness: after a registration and a removal the child context has no producer for the
\* base class, on itself or on the root, and a getAsync on it has returned a promise that
\* rejects with NotFound; the name of the class is still registered.
C39_Witness ==
    /\ last.op = "getAsync"
    /\ last.c # 1
    /\ last.q = TypeQ("Base")
    /\ ~Has(last.c, last.q)
    /\ last.out = Ok(WrapperV(Err("NotFound", last.q, 0)))
    /\ \E c \in Contexts : Has(c, NameQ("n1"))

\* The injectable registered last among those of the given types, 0 if there is none.
Latest(types) ==
    IF \E i \in 1..Len(injs) : injs[i].type \in types
    THEN CHOOSE i \in 1..Len(injs) :
             /\ injs[i].type \in types
             /\ \A j \in 1..Len(injs) : injs[j].type \in types => j <= i
    ELSE 0

\* The entry of the root context for the QualifiedType of (t, n), 0 if there is none.
PairEntry(t, n) == MapGet(injectables[1], QualifiedTypeFor(qualifiedTypes, t, n).q)

\* C40 (a shared ancestor maps to the later producer): in a context in which the classes Impl1
\* and Impl2, both derived from Base and both named n1, are registered any number of times, the
\* qualifiers Base, (Base, n1), n1, Object and (Object, n1) map to the producer registered last,
\* while Impl1 and (Impl1, n1) map to the last producer of Impl1, and Impl2 and (Impl2, n1) to
\* the last producer of Impl2.  A get by Base or by (Base, n1) returns the instance of the
\* producer registered last.
C40_SharedAncestorLatest ==
    /\ [](/\ MapGet(injectables[1], TypeQ("Base")) = Latest({"Impl1", "Impl2"})
          /\ PairEntry("Base", "n1") = Latest({"Impl1", "Impl2"})
          /\ MapGet(injectables[1], NameQ("n1")) = Latest({"Impl1", "Impl2"})
          /\ MapGet(injectables[1], TypeQ("Object")) = Latest({"Impl1", "Impl2", "Context"})
          /\ PairEntry("Object", "n1") = Latest({"Impl1", "Impl2"})
          /\ MapGet(injectables[1], TypeQ("Impl1")) = Latest({"Impl1"})
          /\ PairEntry("Impl1", "n1") = Latest({"Impl1"})
          /\ MapGet(injectables[1], TypeQ("Impl2")) = Latest({"Impl2"})
          /\ PairEntry("Impl2", "n1") = Latest({"Impl2"}))
    /\ [][(/\ last'.op = "get"
           /\ last'.q \in {TypeQ("Base"), QualifiedTypeFor(qualifiedTypes, "Base", "n1").q}
           /\ Latest({"Impl1", "Impl2"}) # 0) =>
                /\ last'.out = Ok(injs'[Latest({"Impl1", "Impl2"})].instance)
                /\ last'.out.v.by = Latest({"Impl1", "Impl2"})
         ]_vars

\* C40 witness: Impl2 was registered after Impl1; a get by Base has returned the instance of
\* Impl2, and Impl1 still maps to its own producer.
C40_Witness ==
    /\ last.op = "get"
    /\ last.q = TypeQ("Base")
    /\ Latest({"Impl1"}) # 0
    /\ Latest({"Impl2"}) > Latest({"Impl1"})
    /\ last.out.err = ""
    /\ last.out.v.by = Latest({"Impl2"})
    /\ MapGet(injectables[1], TypeQ("Impl1")) = Latest({"Impl1"})
    /\ PairEntry("Impl1", "n1") = Latest({"Impl1"})

====
